------------------------------ MODULE Recognizer ------------------------------
(***************************************************************************)
(* services/recognizer/src/main.py, recognizer.py and db.py: from a        *)
(* detection to the row and the message that say whose face it shows.      *)
(* The listen loop takes one of a fixed number of slots per detection and  *)
(* hands it to a pool of workers; a worker reads the enrolled faces,       *)
(* matches the largest face of the snapshot, records the outcome and then  *)
(* publishes it, and gives the slot back.  Meanwhile an operator enrolls,  *)
(* disables and deletes faces and switches the feature on and off, and     *)
(* the detector may deliver an event twice.                                *)
(***************************************************************************)
EXTENDS Naturals, FiniteSets, Sequences, SequencesExt, FiniteSetsExt

CONSTANTS
    Jobs,             \* deliveries of detections
    EventOf,          \* EventOf[j]: the event delivery j carries
    People,           \* faces an operator may enroll
    PoolSize,         \* max_concurrent_workers, read once at the start
    QueueDepth,       \* _BACKPRESSURE_QUEUE_DEPTH
    Placed,           \* events for which something put <feedback_token>.jpg into snapshots_dir
    MaxRecogFaults,   \* bound: failures of the database, of Redis, of a worker
    MaxFaceEdits      \* bound: changes of the enrolled faces and of the settings

ASSUME RecogAssumption == PoolSize \in Nat /\ QueueDepth \in Nat

VARIABLES
    stage,        \* where each delivery is
    poolQueue,    \* deliveries submitted and not yet taken by a worker
    slots,        \* what the semaphore has left
    recogOn,      \* face_recognition.enabled, as the loop reads it
    enrolled,     \* "absent", "enabled", "disabled" or "deleted"
    snapshots,    \* the names of the files in snapshots_dir
    loaded,       \* what list_enabled_faces gave a worker
    outcome,      \* what it found
    recognitions, \* the table, by event
    publishedFor, \* outcomes the subscribers were told, by event
    current,      \* faces that were enabled at some time since the delivery
    unrecorded,      \* events that were refused, or whose row the database refused
    recogFaults, faceEdits

recogVars == <<stage, poolQueue, slots, recogOn, enrolled, snapshots, loaded, outcome, recognitions,
               publishedFor, current, unrecorded, recogFaults, faceEdits>>

CropEvents == {EventOf[j] : j \in Jobs}
PoolSlots == PoolSize + QueueDepth
NoVerdict == "none"
Matched(f) == <<"matched", f>>
Verdicts == {<<s>> : s \in {NoVerdict, "unknown", "no_face", "error"}} \cup {Matched(f) : f \in People}
Stages == {"new", "skipped", "dropped", "queued", "started", "matching", "recording", "publishing", "done"}

\* events.py names the file after the camera, the class and the second; main.py looks for the token.
SavedName(e) == <<"stamp", e>>
LookedForName(e) == <<"token", e>>

RecognizerTypeOK ==
    /\ stage \in [Jobs -> Stages]
    /\ poolQueue \in Seq(Jobs) /\ slots \in 0 .. PoolSlots /\ recogOn \in BOOLEAN
    /\ enrolled \in [People -> {"absent", "enabled", "disabled", "deleted"}]
    /\ loaded \in [Jobs -> SUBSET People] /\ current \in [Jobs -> SUBSET People]
    /\ outcome \in [Jobs -> Verdicts] /\ recognitions \in [CropEvents -> Verdicts]
    /\ publishedFor \in [CropEvents -> SUBSET Verdicts] /\ unrecorded \subseteq CropEvents

RecognizerInit ==
    /\ stage = [j \in Jobs |-> "new"]
    /\ poolQueue = <<>> /\ slots = PoolSlots
    /\ recogOn \in BOOLEAN
    /\ enrolled \in [People -> {"absent", "enabled"}]
    /\ snapshots = {LookedForName(e) : e \in Placed}
    /\ loaded = [j \in Jobs |-> {}] /\ current = [j \in Jobs |-> {}]
    /\ outcome = [j \in Jobs |-> <<NoVerdict>>]
    /\ recognitions = [e \in CropEvents |-> <<NoVerdict>>]
    /\ publishedFor = [e \in CropEvents |-> {}]
    /\ unrecorded = {} /\ recogFaults = 0 /\ faceEdits = 0

RecogFault == recogFaults < MaxRecogFaults /\ recogFaults' = recogFaults + 1

-----------------------------------------------------------------------------
(* The operator. *)

\* A slip of the next: the flag is not asked for.
ListFaces == {f \in People : enrolled[f] \in {"enabled", "disabled"}}

\* A worker's list_enabled_faces.
ListEnabledFaces == {f \in People : enrolled[f] = "enabled"}

\* faces_create, faces_edit and faces_delete.
EditFace(f) ==
    /\ faceEdits < MaxFaceEdits /\ faceEdits' = faceEdits + 1
    /\ \/ enrolled[f] \in {"absent", "disabled"} /\ enrolled' = [enrolled EXCEPT ![f] = "enabled"]
       \/ enrolled[f] = "enabled" /\ enrolled' = [enrolled EXCEPT ![f] = "disabled"]
       \/ enrolled[f] \in {"enabled", "disabled"} /\ enrolled' = [enrolled EXCEPT ![f] = "deleted"]
    /\ current' = IF enrolled'[f] = "enabled"
                  THEN [j \in Jobs |-> IF stage[j] = "new" THEN current[j] ELSE current[j] \cup {f}]
                  ELSE current
    /\ UNCHANGED <<stage, poolQueue, slots, recogOn, snapshots, loaded, outcome, recognitions, publishedFor,
                   unrecorded, recogFaults>>

\* _on_config_change: the loop reads the new settings; the pool keeps its size.
Reconfigure ==
    /\ faceEdits < MaxFaceEdits /\ faceEdits' = faceEdits + 1
    /\ recogOn' = ~recogOn
    /\ UNCHANGED <<stage, poolQueue, slots, enrolled, snapshots, loaded, outcome, recognitions, publishedFor,
                   current, unrecorded, recogFaults>>

-----------------------------------------------------------------------------
(* The listen loop. *)

\* The detector saves the snapshot, if it can, before it publishes the event.
DetectorSaves(e, ok) == snapshots' = IF ok THEN snapshots \cup {SavedName(e)} ELSE snapshots

\* A detection the settings do not ask for, or any while the feature is off.
Skip(j) ==
    /\ stage[j] = "new"
    /\ stage' = [stage EXCEPT ![j] = "skipped"]
    /\ UNCHANGED <<poolQueue, slots, recogOn, enrolled, snapshots, loaded, outcome, recognitions, publishedFor,
                   current, unrecorded, recogFaults, faceEdits>>

\* backpressure.acquire(blocking=False), then submit; without a slot the detection is dropped.
Dispatch(j) ==
    /\ stage[j] = "new" /\ recogOn
    /\ \E ok \in BOOLEAN : DetectorSaves(EventOf[j], ok)
    /\ IF slots > 0
       THEN /\ slots' = slots - 1
            /\ poolQueue' = Append(poolQueue, j)
            /\ stage' = [stage EXCEPT ![j] = "queued"]
       ELSE /\ stage' = [stage EXCEPT ![j] = "dropped"]
            /\ UNCHANGED <<slots, poolQueue>>
    /\ current' = [current EXCEPT ![j] = {f \in People : enrolled[f] = "enabled"}]
    /\ UNCHANGED <<recogOn, enrolled, loaded, outcome, recognitions, publishedFor, unrecorded, recogFaults, faceEdits>>

-----------------------------------------------------------------------------
(* A worker. *)

Running == {j \in Jobs : stage[j] \in {"started", "matching", "recording", "publishing"}}

StartJob ==
    /\ poolQueue # <<>> /\ Cardinality(Running) < PoolSize
    /\ stage' = [stage EXCEPT ![Head(poolQueue)] = "started"]
    /\ poolQueue' = Tail(poolQueue)
    /\ UNCHANGED <<slots, recogOn, enrolled, snapshots, loaded, outcome, recognitions, publishedFor, current,
                   unrecorded, recogFaults, faceEdits>>

\* A slip of the next: the release is the last line of _process_event, which returns early.
FinishAtTheEnd(j) ==
    /\ stage' = [stage EXCEPT ![j] = "done"]
    /\ slots' = IF stage[j] = "publishing" THEN slots + 1 ELSE slots

\* The end of _wrapped_process: the slot is given back whatever became of the event.
Finish(j) ==
    /\ stage' = [stage EXCEPT ![j] = "done"]
    /\ slots' = slots + 1

\* insert_recognition: one row an event, the later outcome in place of the earlier; an error of the
\* database is logged and forgotten.
InsertRecognition(e, verdict) ==
    \/ /\ recognitions' = [recognitions EXCEPT ![e] = verdict]
       /\ UNCHANGED <<unrecorded, recogFaults>>
    \/ /\ RecogFault
       /\ unrecorded' = unrecorded \cup {e}
       /\ UNCHANGED recognitions

\* No token of the right shape, or no box: nothing is recorded.
Refuse(j) ==
    /\ stage[j] = "started"
    /\ Finish(j)
    /\ unrecorded' = unrecorded \cup {EventOf[j]}
    /\ UNCHANGED <<poolQueue, recogOn, enrolled, snapshots, loaded, outcome, recognitions, publishedFor, current,
                   recogFaults, faceEdits>>

Present(e) == LookedForName(e) \in snapshots

\* The snapshot is not there: an error is recorded and nothing published.
SnapshotMissing(j) ==
    /\ stage[j] = "started" /\ ~Present(EventOf[j])
    /\ InsertRecognition(EventOf[j], <<"error">>)
    /\ outcome' = [outcome EXCEPT ![j] = <<"error">>]
    /\ Finish(j)
    /\ UNCHANGED <<poolQueue, recogOn, enrolled, snapshots, loaded, publishedFor, current, faceEdits>>

ReadFaces(j) ==
    /\ stage[j] = "started" /\ Present(EventOf[j])
    /\ loaded' = [loaded EXCEPT ![j] = ListEnabledFaces]
    /\ stage' = [stage EXCEPT ![j] = "matching"]
    /\ UNCHANGED <<poolQueue, slots, recogOn, enrolled, snapshots, outcome, recognitions, publishedFor, current,
                   unrecorded, recogFaults, faceEdits>>

\* The faces cannot be read, or the match crashes: an error is recorded.
JobFails(j) ==
    /\ \/ stage[j] = "started" /\ Present(EventOf[j])
       \/ stage[j] = "matching"
    /\ RecogFault
    /\ recognitions' = [recognitions EXCEPT ![EventOf[j]] = <<"error">>]
    /\ outcome' = [outcome EXCEPT ![j] = <<"error">>]
    /\ Finish(j)
    /\ UNCHANGED <<poolQueue, recogOn, enrolled, snapshots, loaded, publishedFor, current, unrecorded, faceEdits>>

\* recognize_crop: no face in the crop, none near enough, or the nearest of those loaded.
Verdict(faces) == {<<"no_face">>, <<"unknown">>} \cup {Matched(f) : f \in faces}

Match(j) ==
    /\ stage[j] = "matching"
    /\ \E v \in Verdict(loaded[j]) : outcome' = [outcome EXCEPT ![j] = v]
    /\ stage' = [stage EXCEPT ![j] = "recording"]
    /\ UNCHANGED <<poolQueue, slots, recogOn, enrolled, snapshots, loaded, recognitions, publishedFor, current,
                   unrecorded, recogFaults, faceEdits>>

RecordOutcome(j) ==
    /\ stage[j] = "recording"
    /\ InsertRecognition(EventOf[j], outcome[j])
    /\ stage' = [stage EXCEPT ![j] = "publishing"]
    /\ UNCHANGED <<poolQueue, slots, recogOn, enrolled, snapshots, loaded, outcome, publishedFor, current, faceEdits>>

\* _publish_recognition: Redis may refuse, and then nobody is told.
PublishOutcome(j) ==
    /\ stage[j] = "publishing"
    /\ \/ /\ publishedFor' = [publishedFor EXCEPT ![EventOf[j]] = @ \cup {outcome[j]}]
          /\ UNCHANGED recogFaults
       \/ RecogFault /\ UNCHANGED publishedFor
    /\ Finish(j)
    /\ UNCHANGED <<poolQueue, recogOn, enrolled, snapshots, loaded, outcome, recognitions, current, unrecorded, faceEdits>>

RecognizerNext ==
    \/ \E f \in People : EditFace(f)
    \/ Reconfigure \/ StartJob
    \/ \E j \in Jobs : \/ Skip(j) \/ Dispatch(j) \/ Refuse(j) \/ SnapshotMissing(j) \/ ReadFaces(j)
                       \/ JobFails(j) \/ Match(j) \/ RecordOutcome(j) \/ PublishOutcome(j)

RecognizerSpec == RecognizerInit /\ [][RecognizerNext]_recogVars

-----------------------------------------------------------------------------
\* Every slot is free or belongs to one delivery in the pool: a worker that fails takes none with
\* it, so the queue cannot fill up for good.
SlotsAreCounted == slots + Len(poolQueue) + Cardinality(Running) = PoolSlots

\* A delivery a worker is through with has left a row for its event, unless the event was refused
\* or the database failed, and nothing is published that the table was not given first.
AnswersAreRecorded ==
    /\ \A j \in Jobs : stage[j] = "done" =>
           recognitions[EventOf[j]] # <<NoVerdict>> \/ EventOf[j] \in unrecorded
    /\ \A e \in CropEvents : publishedFor[e] # {} => recognitions[e] # <<NoVerdict>> \/ e \in unrecorded

\* A face that was disabled or deleted before a detection arrived, and stayed so, is not named as
\* its visitor, however long the detection waited in the queue.
OnlyEnrolledAreNamed == \A j \in Jobs, f \in People : outcome[j] = Matched(f) => f \in current[j]

\* Deliveries, refusals, failures and edits of the faces leave the pool's slots, the
\* table and the channel in agreement.
RecognizerHolds == RecognizerTypeOK /\ SlotsAreCounted /\ AnswersAreRecorded /\ OnlyEnrolledAreNamed

\* The snapshot the detector saved for an event is the one the recognizer loads.
SavedSnapshotsAreFound ==
    \A j \in Jobs : stage[j] = "started" /\ SavedName(EventOf[j]) \in snapshots => Present(EventOf[j])
=============================================================================

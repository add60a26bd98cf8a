------------------------------ MODULE Clipper ------------------------------
(***************************************************************************)
(* The clipper: a ring of one-second video segments per camera, written by *)
(* a supervised ffmpeg (segmenter.py), and for every event a task of a     *)
(* bounded pool that sleeps until the post-roll is on disk and cuts its    *)
(* clip out of the ring (main.py, writer.py), with a row in the clips      *)
(* table (db.py).  One camera; an event can be delivered twice, because    *)
(* its publisher may repeat it (Detections).                               *)
(***************************************************************************)
EXTENDS Integers, Sequences, FiniteSets

CONSTANTS
    Tokens, Workers,          \* feedback tokens; max_concurrent_clips
    Segments,                 \* segments_per_camera
    PreRoll, PostRoll,        \* in segments of a second
    Backoff, MaxBackoff, StableRun,  \* of the supervisor, scaled down
    LastEventTime, MaxDeliveries, MaxExits  \* bounds

ASSUME ClipperAssumption ==
    /\ Segments \in Nat \ {0} /\ PreRoll \in Nat /\ PostRoll \in Nat /\ LastEventTime \in Nat
    /\ Backoff \in Nat /\ MaxBackoff \in Nat /\ Backoff <= MaxBackoff
    /\ Tokens # {}

VARIABLES
    second,    \* the time
    ring,      \* per file of the ring, the time it was completed; 0 for none
    slot,      \* the file ffmpeg is writing
    ffmpeg,    \* the supervised process, and its back-off
    enabled,   \* clipper.enabled of settings_ref
    tasks,     \* the pool's queue
    worker,    \* per worker: the task it is at
    clipFile,  \* clips_dir: per token, none, partial or whole
    clipRow,   \* the clips table
    delivered, exits,  \* bounds
    spoiled    \* history: events a task of which ended without a row, or ran beside
               \* another of theirs: both write one file

clipperVars == <<second, ring, slot, ffmpeg, enabled, tasks, worker, clipFile, clipRow,
                 delivered, exits, spoiled>>
ringVars == <<second, ring, slot, ffmpeg, exits>>
rowVars == <<clipFile, clipRow, spoiled>>

Slots == 0 .. Segments - 1
MaxSecond == LastEventTime + Segments + PostRoll
SomeToken == CHOOSE t \in Tokens : TRUE
Free == [at |-> "free", token |-> SomeToken, ts |-> 0, until |-> 0, segs |-> {}, ran |-> {}]
NoClip == [here |-> FALSE, path |-> FALSE, error |-> FALSE, ts |-> 0, at |-> 0, segs |-> {}, ran |-> {}]

ClipperTypeOK ==
    /\ second \in 1 .. MaxSecond /\ ring \in [Slots -> 0 .. MaxSecond] /\ slot \in Slots
    /\ ffmpeg.state \in {"up", "waiting", "off"} /\ ffmpeg.delay \in Backoff .. MaxBackoff
    /\ \A w \in Workers : worker[w].at \in {"free", "sleeping", "writing", "failing", "inserting"}
    /\ clipFile \in [Tokens -> {"none", "partial", "whole"}]
    /\ spoiled \subseteq Tokens

ClipperInit ==
    /\ second = 1 /\ ring = [s \in Slots |-> 0] /\ slot = 0
    /\ ffmpeg = [state |-> "up", since |-> 1, until |-> 0, delay |-> Backoff, wake |-> 0]
    /\ enabled = TRUE /\ tasks = <<>> /\ worker = [w \in Workers |-> Free]
    /\ clipFile = [t \in Tokens |-> "none"] /\ clipRow = [t \in Tokens |-> NoClip]
    /\ delivered = 0 /\ exits = 0 /\ spoiled = {}

-----------------------------------------------------------------------------
(* The ring and its supervisor.                                            *)

\* A second passes: ffmpeg completes a segment and opens the next file of the ring,
\* which it empties.
NextSecond ==
    /\ second < MaxSecond
    /\ second' = second + 1
    /\ \/ /\ ffmpeg.state = "up"
          /\ slot' = (slot + 1) % Segments
          /\ ring' = [ring EXCEPT ![slot] = second', ![slot'] = 0]
       \/ ffmpeg.state # "up" /\ UNCHANGED <<ring, slot>>
    /\ UNCHANGED <<ffmpeg, enabled, tasks, worker, rowVars, delivered, exits>>

\* A new ffmpeg numbers its files from 0, whichever of them is the oldest.
Launched == /\ slot' = 0 /\ ring' = [ring EXCEPT ![0] = 0]

\* _run_supervisor: ffmpeg exits, and is started again after the back-off, which a
\* stable run has reset.
FfmpegExits ==
    LET delay == IF second - ffmpeg.since >= StableRun THEN Backoff ELSE ffmpeg.delay IN
    /\ ffmpeg.state = "up" /\ exits < MaxExits
    /\ exits' = exits + 1
    /\ ffmpeg' = [ffmpeg EXCEPT !.state = "waiting", !.until = second, !.delay = delay, !.wake = second + delay]
    /\ UNCHANGED <<second, ring, slot, enabled, tasks, worker, rowVars, delivered>>
FfmpegRestarts ==
    /\ ffmpeg.state = "waiting" /\ second >= ffmpeg.wake
    /\ ffmpeg' = [state |-> "up", since |-> second, until |-> 0, wake |-> 0,
                  delay |-> IF ffmpeg.delay * 2 > MaxBackoff THEN MaxBackoff ELSE ffmpeg.delay * 2]
    /\ Launched
    /\ UNCHANGED <<second, enabled, tasks, worker, rowVars, delivered, exits>>

\* _on_config_change: the settings first, then the old segmenters are stopped, and
\* new ones started if the clipper is enabled.
ReloadStops(on) ==
    /\ ffmpeg.state # "off" /\ exits < MaxExits
    /\ exits' = exits + 1
    /\ enabled' = on
    /\ ffmpeg' = [ffmpeg EXCEPT !.state = "off", !.until = IF @ = 0 THEN second ELSE @]
    /\ UNCHANGED <<second, ring, slot, tasks, worker, rowVars, delivered>>
ReloadStarts ==
    /\ ffmpeg.state = "off" /\ enabled
    /\ ffmpeg' = [state |-> "up", since |-> second, until |-> 0, delay |-> Backoff, wake |-> 0]
    /\ Launched
    /\ UNCHANGED <<second, enabled, tasks, worker, rowVars, delivered, exits>>

-----------------------------------------------------------------------------
(* subscribe_loop and _make_clip                                           *)

\* A verified event the settings apply to, at most a second old, goes to the pool.
\* The look-up of its segmenter fails only before the first one is there.
Submit(t) ==
    /\ enabled /\ delivered < MaxDeliveries
    /\ \E ts \in {second - 1, second} :
           /\ ts >= 1 /\ ts <= LastEventTime
           /\ clipRow[t].here => clipRow[t].ts = ts
           /\ \A i \in DOMAIN tasks : tasks[i].token = t => tasks[i].ts = ts
           /\ \A w \in Workers : worker[w].at # "free" /\ worker[w].token = t => worker[w].ts = ts
           /\ tasks' = Append(tasks, [token |-> t, ts |-> ts])
    /\ delivered' = delivered + 1
    /\ UNCHANGED <<ringVars, enabled, worker, rowVars>>

Later(a, b) == IF a > b THEN a ELSE b

AtWork == {worker[w].token : w \in {v \in Workers : worker[v].at # "free"}}

\* A worker takes the next task and sleeps until the post-roll and one more segment
\* are on disk.
StartTask(w) ==
    /\ worker[w].at = "free" /\ tasks # <<>>
    /\ worker' = [worker EXCEPT ![w] =
           [Free EXCEPT !.at = "sleeping", !.token = Head(tasks).token, !.ts = Head(tasks).ts,
                        !.until = Later(Head(tasks).ts + PostRoll, second) + 1]]
    /\ tasks' = Tail(tasks)
    /\ spoiled' = IF Head(tasks).token \in AtWork THEN spoiled \union {Head(tasks).token} ELSE spoiled
    /\ UNCHANGED <<ringVars, enabled, clipFile, clipRow, delivered>>

\* Mutant: no segment before the event's own pre-roll.
InWindowUnpadded(ts) == {ring[s] : s \in Slots} \intersect (ts - PreRoll + 2 .. ts + PostRoll + 1)

\* segments_in_window, with one segment more on either side.
InWindow(ts) == ({ring[s] : s \in Slots} \ {0}) \intersect (ts - PreRoll - 1 .. ts + PostRoll + 1)

\* The seconds the ffmpeg that is, or was, running has seen.
Ran == ffmpeg.since + 1 .. (IF ffmpeg.state = "up" THEN second ELSE ffmpeg.until)

Gather(w) ==
    /\ worker[w].at = "sleeping" /\ second >= worker[w].until
    /\ worker' = [worker EXCEPT ![w].segs = InWindow(worker[w].ts), ![w].ran = Ran,
                                ![w].until = second,
                                ![w].at = IF InWindow(worker[w].ts) = {} THEN "failing" ELSE "writing"]
    /\ clipFile' = IF InWindow(worker[w].ts) = {} THEN clipFile
                   ELSE [clipFile EXCEPT ![worker[w].token] = "partial"]
    /\ UNCHANGED <<ringVars, enabled, tasks, clipRow, spoiled, delivered>>

\* write_clip: ffmpeg rewrites the file from the start.  A failure is a return code
\* or a time-out; any other error is lost in the pool's future.
WriteClip(w) ==
    /\ worker[w].at = "writing"
    /\ \/ /\ clipFile' = [clipFile EXCEPT ![worker[w].token] = "whole"]
          /\ worker' = [worker EXCEPT ![w].at = "inserting"]
          /\ UNCHANGED spoiled
       \/ worker' = [worker EXCEPT ![w].at = "failing"] /\ UNCHANGED <<clipFile, spoiled>>
       \/ /\ worker' = [worker EXCEPT ![w] = Free]
          /\ spoiled' = spoiled \union {worker[w].token}
          /\ UNCHANGED clipFile
    /\ UNCHANGED <<ringVars, enabled, tasks, clipRow, delivered>>

\* insert_clip replaces what a row says, its error included; insert_failure leaves
\* an older path in its place.
Inserted(row, task) ==
    [here |-> TRUE, path |-> TRUE, error |-> FALSE, ts |-> task.ts, at |-> task.until,
     segs |-> task.segs, ran |-> task.ran]

InsertRow(w) ==
    LET t == worker[w].token IN
    /\ worker[w].at \in {"inserting", "failing"}
    /\ \/ /\ clipRow' = [clipRow EXCEPT ![t] =
                 IF worker[w].at = "inserting" THEN Inserted(@, worker[w])
                 ELSE [@ EXCEPT !.here = TRUE, !.error = TRUE, !.ts = worker[w].ts]]
          /\ UNCHANGED spoiled
       \/ spoiled' = spoiled \union {t} /\ UNCHANGED clipRow
    /\ worker' = [worker EXCEPT ![w] = Free]
    /\ UNCHANGED <<ringVars, enabled, tasks, clipFile, delivered>>

UnderWay == {tasks[i].token : i \in DOMAIN tasks} \union AtWork

\* The clipper is killed: a stop waits for the next message and for every task, and
\* the container's grace period is shorter.
ClipperDies ==
    /\ exits < MaxExits /\ exits' = exits + 1
    /\ spoiled' = spoiled \union UnderWay
    /\ tasks' = <<>> /\ worker' = [w \in Workers |-> Free]
    /\ ffmpeg' = [state |-> "up", since |-> second, until |-> 0, delay |-> Backoff, wake |-> 0]
    /\ enabled' = TRUE
    /\ Launched
    /\ UNCHANGED <<second, clipFile, clipRow, delivered>>

ClipperNext ==
    \/ NextSecond \/ FfmpegExits \/ FfmpegRestarts
    \/ (\E on \in BOOLEAN : ReloadStops(on)) \/ ReloadStarts \/ ClipperDies
    \/ \E t \in Tokens : Submit(t)
    \/ \E w \in Workers : StartTask(w) \/ Gather(w) \/ WriteClip(w) \/ InsertRow(w)

ClipperSpec == ClipperInit /\ [][ClipperNext]_clipperVars

-----------------------------------------------------------------------------
\* _attach_clips of the events page: the rows that are shown with a video.
Shown == {t \in Tokens : clipRow[t].path /\ ~clipRow[t].error}

\* What the window of an event needs of the segments one run of ffmpeg has written.
Needed(row) == (row.ts - PreRoll + 1 .. row.ts + PostRoll) \intersect row.ran

\* A clip that was cut while the ring still held its window is complete, as far as
\* ffmpeg has run without a restart.
ClipsAreComplete ==
    \A t \in Shown :
        clipRow[t].at <= clipRow[t].ts - PreRoll + Segments - 1 =>
            Needed(clipRow[t]) \subseteq clipRow[t].segs

\* A clip that is shown is a whole file, unless the same event is being cut again,
\* or a task of it ended without a row or beside another.
ShownClipsAreWhole ==
    \A t \in Shown : clipFile[t] = "whole" \/ t \in UnderWay \union spoiled

\* What is shown as a clip is one, whole and with all the ring still had of it.
ClipsHold == ClipperTypeOK /\ ClipsAreComplete /\ ShownClipsAreWhole

\* "if you raise PRE_ROLL above segment_seconds * (segments_per_camera - 2) you won't
\* actually get that many seconds": up to there it is kept, in a clip cut on time.
\* The code does not keep this; TLC refutes it (README, section 3).
PreRollIsKept ==
    PreRoll <= Segments - 2 =>
        \A t \in Shown : clipRow[t].at = clipRow[t].ts + PostRoll + 1 => Needed(clipRow[t]) \subseteq clipRow[t].segs
=============================================================================

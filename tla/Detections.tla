----------------------------- MODULE Detections -----------------------------
(***************************************************************************)
(* From a detection to its event: the cooldown, the row and the snapshot   *)
(* (events.py), the publication with its buffer (publisher.py) and the     *)
(* visit (visit_tracker.py), as _publish_detections of main.py chains      *)
(* them.  One camera and one class: another pair has another key in every  *)
(* table.  The camera has two threads when a stopped one outlives its join *)
(* (CameraLifecycle); each has a publisher and a buffer of its own.        *)
(***************************************************************************)
EXTENDS Integers, Sequences, FiniteSets

CONSTANTS
    CameraThreads,
    Cooldown,      \* cooldown_seconds
    VisitTimeout,  \* timeout_seconds of the visit tracker
    BufferMax,     \* _BUFFER_MAX
    MaxEvents, MaxClock, MaxPublishErrors, MaxRowErrors  \* bounds

ASSUME DetectionsAssumption ==
    /\ BufferMax \in Nat \ {0} /\ VisitTimeout \in Nat
    /\ MaxEvents \in Nat /\ MaxClock \in Nat
    /\ "main" \notin CameraThreads

VARIABLES
    clock,       \* the time since the host started
    lastEvent,   \* _last_event[key], 0 when there is none
    stamp,       \* the events so far: the time of each, and its thread
    cam,         \* per thread: the event it works on and where it is
    buffer,      \* per thread: _buffer
    channel,     \* what has been published on openring:detections
    rowed,       \* the events that have a row
    visit,       \* _active[key]
    closing,     \* popped from _active, not yet written, by who writes it
    sessions,    \* visit_sessions
    publishErrors, rowErrors,
    dropped,     \* history: events that fell out of a buffer or died with it
    doubled,     \* history: publications whose reply was lost
    unvisited,   \* history: events whose visit was not written, or not counted
    late         \* history: a visit was told of an event after a later one or after
                 \* its flush, or was cut short by a restart

eventVars == <<lastEvent, stamp, rowed, rowErrors>>
publishVars == <<buffer, channel, publishErrors, dropped, doubled>>
visitVars == <<visit, closing, sessions, unvisited, late>>
detectionVars == <<clock, cam, eventVars, publishVars, visitVars>>

Events == 1 .. MaxEvents
Main == "main"
NoVisit == [start |-> 0, last |-> 0, of |-> {}]
Nothing == [at |-> "idle", now |-> 0, event |-> 0]

DetectionsTypeOK ==
    /\ clock \in 0 .. MaxClock /\ lastEvent \in 0 .. MaxClock
    /\ Len(stamp) <= MaxEvents /\ rowed \subseteq Events
    /\ \A t \in CameraThreads :
           /\ cam[t].at \in {"idle", "deciding", "saving", "publishing", "visiting", "closing"}
           /\ Len(buffer[t]) <= BufferMax
    /\ visit.of \subseteq Events /\ DOMAIN closing = CameraThreads \union {Main}

DetectionsInit ==
    /\ clock = 0 /\ lastEvent = 0 /\ stamp = <<>> /\ rowed = {} /\ rowErrors = 0
    /\ cam = [t \in CameraThreads |-> Nothing]
    /\ buffer = [t \in CameraThreads |-> <<>>] /\ channel = <<>>
    /\ publishErrors = 0 /\ dropped = {} /\ doubled = 0
    /\ visit = NoVisit /\ closing = [w \in CameraThreads \union {Main} |-> NoVisit]
    /\ sessions = {} /\ unvisited = {} /\ late = FALSE

\* The events that have happened and are not yet in a visit.
Working == {cam[t].event : t \in {u \in CameraThreads : cam[u].at \notin {"idle", "deciding", "closing"}}}

Goto(t, step) == cam' = [cam EXCEPT ![t].at = step]

-----------------------------------------------------------------------------
(* EventProcessor.process                                                  *)

\* A frame shows the class: `now` is read before the lock is taken.
Detect(t) ==
    /\ cam[t].at = "idle"
    /\ cam' = [cam EXCEPT ![t] = [at |-> "deciding", now |-> clock, event |-> 0]]
    /\ UNCHANGED <<clock, eventVars, publishVars, visitVars>>

Suppressed(now) == now - lastEvent < Cooldown

\* The look-up and the update of _last_event, under the lock, and the timestamp.
Decide(t) ==
    LET now == cam[t].now IN
    /\ cam[t].at = "deciding"
    /\ \/ /\ Suppressed(now)
          /\ Goto(t, "idle")
          /\ UNCHANGED eventVars
       \/ /\ ~Suppressed(now) /\ Len(stamp) < MaxEvents
          /\ lastEvent' = now
          /\ stamp' = Append(stamp, [time |-> clock, by |-> t])
          /\ cam' = [cam EXCEPT ![t].at = "saving", ![t].event = Len(stamp')]
          /\ UNCHANGED <<rowed, rowErrors>>
    /\ UNCHANGED <<clock, publishVars, visitVars>>

\* _save_snapshot and _persist.  A failure is logged and the event goes on.
SaveRow(t) ==
    /\ cam[t].at = "saving"
    /\ \/ rowed' = rowed \union {cam[t].event} /\ UNCHANGED rowErrors
       \/ rowErrors < MaxRowErrors /\ rowErrors' = rowErrors + 1 /\ UNCHANGED rowed
    /\ Goto(t, "publishing")
    /\ UNCHANGED <<clock, lastEvent, stamp, publishVars, visitVars>>

-----------------------------------------------------------------------------
(* RedisPublisher.publish                                                  *)

\* _flush_buffer sends the head and pops it once the reply is in.
FlushOne(t) ==
    /\ cam[t].at = "publishing" /\ buffer[t] # <<>>
    /\ channel' = Append(channel, Head(buffer[t]))
    /\ buffer' = [buffer EXCEPT ![t] = Tail(@)]
    /\ UNCHANGED <<clock, cam, eventVars, visitVars, publishErrors, dropped, doubled>>

\* Mutant: the new event goes out before the buffered ones.
PublishOvertakes(t) ==
    /\ cam[t].at = "publishing"
    /\ channel' = Append(channel, cam[t].event)
    /\ Goto(t, "visiting")
    /\ UNCHANGED <<clock, eventVars, visitVars, buffer, publishErrors, dropped, doubled>>

Publish(t) ==
    /\ cam[t].at = "publishing" /\ buffer[t] = <<>>
    /\ channel' = Append(channel, cam[t].event)
    /\ Goto(t, "visiting")
    /\ UNCHANGED <<clock, eventVars, visitVars, buffer, publishErrors, dropped, doubled>>

\* deque(maxlen=...): when it is full, the oldest falls out.
Buffered(t, e) ==
    LET longer == Append(buffer[t], e) IN
    IF Len(longer) > BufferMax THEN Tail(longer) ELSE longer

\* RedisError, while the buffer is flushed or after: what is being sent may have
\* arrived all the same.
PublishFails(t) ==
    LET sending == Head(Append(buffer[t], cam[t].event))
        kept == Buffered(t, cam[t].event) IN
    /\ cam[t].at = "publishing" /\ publishErrors < MaxPublishErrors
    /\ publishErrors' = publishErrors + 1
    /\ \/ channel' = Append(channel, sending) /\ doubled' = doubled + 1
       \/ UNCHANGED <<channel, doubled>>
    /\ buffer' = [buffer EXCEPT ![t] = kept]
    /\ dropped' = IF Len(kept) > Len(buffer[t]) THEN dropped ELSE dropped \union {Head(buffer[t])}
    /\ Goto(t, "visiting")
    /\ UNCHANGED <<clock, eventVars, visitVars>>

\* A stopped thread's publisher goes with it, and so does its buffer.
ThreadEnds(t) ==
    /\ cam[t].at = "idle" /\ buffer[t] # <<>>
    /\ dropped' = dropped \union {buffer[t][i] : i \in DOMAIN buffer[t]}
    /\ buffer' = [buffer EXCEPT ![t] = <<>>]
    /\ UNCHANGED <<clock, cam, eventVars, visitVars, channel, publishErrors, doubled>>

-----------------------------------------------------------------------------
(* VisitTracker                                                            *)

Over(v, now) == v # NoVisit /\ now - v.last >= VisitTimeout
Started(e) == [start |-> stamp[e].time, last |-> stamp[e].time, of |-> {e}]

\* record_detection, under the lock: extend the visit, or start another.
RecordVisit(t) ==
    LET e == cam[t].event IN
    /\ cam[t].at = "visiting"
    /\ visit' = IF visit = NoVisit \/ Over(visit, stamp[e].time) THEN Started(e)
                ELSE [visit EXCEPT !.last = stamp[e].time, !.of = @ \union {e}]
    /\ closing' = [closing EXCEPT ![t] = IF Over(visit, stamp[e].time) THEN visit ELSE NoVisit]
    /\ Goto(t, IF Over(visit, stamp[e].time) THEN "closing" ELSE "idle")
    /\ late' = (late \/ (visit # NoVisit /\ stamp[e].time < visit.last))
    /\ UNCHANGED <<clock, eventVars, publishVars, sessions, unvisited>>

\* Mutant: the visit stays in _active while it is written.
FlushExpiredKeeps ==
    /\ closing[Main] = NoVisit /\ Over(visit, clock)
    /\ closing' = [closing EXCEPT ![Main] = visit]
    /\ UNCHANGED <<clock, cam, eventVars, publishVars, visit, sessions, unvisited, late>>

\* flush_expired of the main loop; flush_all does the same, whatever its age, when
\* the detector stops.
FlushExpired ==
    /\ closing[Main] = NoVisit /\ Over(visit, clock)
    /\ closing' = [closing EXCEPT ![Main] = visit]
    /\ visit' = NoVisit
    /\ late' = (late \/ Working # {})
    /\ UNCHANGED <<clock, cam, eventVars, publishVars, sessions, unvisited>>

\* _persist, outside the lock that guards _active.  A failure is logged.
PersistVisit(w) ==
    /\ closing[w] # NoVisit
    /\ \/ sessions' = sessions \union {closing[w]} /\ UNCHANGED <<rowErrors, unvisited>>
       \/ /\ rowErrors < MaxRowErrors /\ rowErrors' = rowErrors + 1
          /\ unvisited' = unvisited \union closing[w].of
          /\ UNCHANGED sessions
    /\ closing' = [closing EXCEPT ![w] = NoVisit]
    /\ cam' = IF w = Main THEN cam ELSE [cam EXCEPT ![w].at = "idle"]
    /\ UNCHANGED <<clock, lastEvent, stamp, rowed, publishVars, visit, late>>

-----------------------------------------------------------------------------
InBuffers == UNION {{buffer[t][i] : i \in DOMAIN buffer[t]} : t \in CameraThreads}

\* The detector stops: the threads are joined for a while, flush_all closes the
\* visit, and a thread that was not done dies with the process.
Shutdown ==
    /\ \A w \in DOMAIN closing : closing[w] = NoVisit
    /\ sessions' = IF visit = NoVisit THEN sessions ELSE sessions \union {visit}
    /\ visit' = NoVisit
    /\ unvisited' = unvisited \union Working
    /\ dropped' = dropped \union InBuffers \union Working
    /\ buffer' = [t \in CameraThreads |-> <<>>]
    /\ cam' = [t \in CameraThreads |-> Nothing]
    /\ lastEvent' = 0
    /\ late' = (late \/ visit # NoVisit)
    /\ UNCHANGED <<clock, stamp, rowed, rowErrors, channel, publishErrors, doubled, closing>>

DetectionsTick ==
    /\ clock < MaxClock
    /\ clock' = clock + 1
    /\ UNCHANGED <<cam, eventVars, publishVars, visitVars>>

DetectionsNext ==
    \/ \E t \in CameraThreads :
           Detect(t) \/ Decide(t) \/ SaveRow(t) \/ FlushOne(t) \/ Publish(t)
           \/ PublishFails(t) \/ ThreadEnds(t) \/ RecordVisit(t)
    \/ FlushExpired \/ (\E w \in DOMAIN closing : PersistVisit(w)) \/ Shutdown \/ DetectionsTick

DetectionsSpec == DetectionsInit /\ [][DetectionsNext]_detectionVars

-----------------------------------------------------------------------------
Happened == DOMAIN stamp
Published == {channel[i] : i \in DOMAIN channel}

\* No event vanishes between its cooldown and the channel, a thread's events are
\* published in their order, and one a second time only after a reply was lost.
EventsArePublished ==
    /\ \A i, j \in DOMAIN channel :
           i < j /\ stamp[channel[i]].by = stamp[channel[j]].by => channel[i] <= channel[j]
    /\ Happened \subseteq Working \union InBuffers \union Published \union dropped
    /\ Len(channel) <= Cardinality(Published) + doubled

\* Every event is in one visit, whoever closes it, except a visit that could not
\* be written.
EventsAreInOneVisit ==
    LET all == {visit, NoVisit} \union sessions \union {closing[w] : w \in DOMAIN closing} IN
    /\ \A v, w \in all : v = w \/ v.of \intersect w.of = {}
    /\ Happened \subseteq Working \union unvisited \union UNION {v.of : v \in all}

\* Visits are VisitTimeout apart and end after they start, as long as the visit
\* tracker is told of the events in time and in order and the detector stays up.
VisitsAreApart ==
    late \/
    \A v \in (sessions \union {visit}) \ {NoVisit} :
        /\ v.start <= v.last
        /\ \A w \in sessions : w # v => w.last + VisitTimeout <= v.start \/ v.last + VisitTimeout <= w.start

\* What a detection becomes - a message, a row, a part of a visit - none of them
\* gets lost or doubled by threads, failures or the end of the detector.
DetectionsHold == DetectionsTypeOK /\ EventsArePublished /\ EventsAreInOneVisit /\ VisitsAreApart
=============================================================================

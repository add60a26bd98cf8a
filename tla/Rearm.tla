-------------------------------- MODULE Rearm --------------------------------
(***************************************************************************)
(* The automatic re-arming after a user's disarm: routes/dashboard.py of   *)
(* the web service leaves a time under openring:rearm_at, the scheduler's  *)
(* thread of the detector (scheduler.py) looks at it on every tick.        *)
(*                                                                         *)
(* `armed` is the flag in openring.yml; how it gets there and back to the  *)
(* detector is ArmFile's.                                                  *)
(***************************************************************************)
EXTENDS Integers, FiniteSets

CONSTANTS
    Clicks,         \* requests of the dashboard in hand at a time
    MaxRearmFaults  \* bound: a service dies, or Redis refuses, this often

ASSUME RearmAssumption == MaxRearmFaults \in Nat

VARIABLES
    armed,   \* system.armed
    key,     \* openring:rearm_at: "none", or a time that is "pending" or "due"
    scheduled, \* ArmScheduler._enabled
    clicks,  \* what each request is about to do to the key
    thread,  \* where the scheduler's thread is in a tick
    rearmFaults,  \* how often something has failed
    \* Histories.
    owed,    \* a user was shown a time of re-arming: it is "pending", or has come
    excused  \* Redis refused, or the detector died, in the middle of a re-arm

rearmVars == <<armed, key, scheduled, clicks, thread, rearmFaults, owed, excused>>

RearmTypeOK ==
    /\ armed \in BOOLEAN /\ scheduled \in BOOLEAN /\ excused \in BOOLEAN
    /\ key \in {"none", "pending", "due"}
    /\ clicks \in [Clicks -> {"none", "set", "clear"}]
    /\ thread \in {"waiting", "transitions", "key", "delete", "allow"}
    /\ rearmFaults \in 0 .. MaxRearmFaults
    /\ owed \in {"nothing", "later", "now"}

RearmInit ==
    /\ armed \in BOOLEAN /\ scheduled \in BOOLEAN
    /\ key = "none" /\ clicks = [c \in Clicks |-> "none"]
    /\ thread = "waiting" /\ rearmFaults = 0
    /\ owed = "nothing" /\ excused = FALSE

\* The time comes.
RearmFallsDue ==
    /\ key = "pending" \/ owed = "later"
    /\ key' = IF key = "pending" THEN "due" ELSE key
    /\ owed' = IF owed = "later" THEN "now" ELSE owed
    /\ UNCHANGED <<armed, scheduled, clicks, thread, rearmFaults, excused>>

-----------------------------------------------------------------------------
(* The web service.                                                        *)

Click(c, on, then) ==
    /\ clicks[c] = "none"
    /\ armed' = on
    /\ owed' = IF on THEN "nothing" ELSE owed
    /\ clicks' = [clicks EXCEPT ![c] = then]
    /\ UNCHANGED <<key, scheduled, thread, rearmFaults, excused>>

\* arm; disarm by an admin, or by a user: with nonadmin_rearm_minutes = 0 that
\* leaves the key alone.  cancel_rearm does not touch the flag.
ArmClick(c) == Click(c, TRUE, "clear")
DisarmByAdmin(c) == Click(c, FALSE, "clear")
DisarmByUser(c) == \E then \in {"set", "none"} : Click(c, FALSE, then)
CancelRearm(c) == Click(c, armed, "clear")

\* The await is over: _set_rearm_at, and the user's answer shows the time.
SetRearm(c) ==
    /\ clicks[c] = "set"
    /\ key' = "pending" /\ owed' = "later"
    /\ clicks' = [clicks EXCEPT ![c] = "none"]
    /\ UNCHANGED <<armed, scheduled, thread, rearmFaults, excused>>

\* _clear_rearm_at deletes whatever is there.
ClearRearm(c) ==
    /\ clicks[c] = "clear"
    /\ key' = "none" /\ owed' = "nothing"
    /\ clicks' = [clicks EXCEPT ![c] = "none"]
    /\ UNCHANGED <<armed, scheduled, thread, rearmFaults, excused>>

\* Redis refuses either of them, which is logged: the answer is the same.
RedisRefusesWeb(c) ==
    /\ clicks[c] # "none" /\ rearmFaults < MaxRearmFaults
    /\ owed' = IF clicks[c] = "set" THEN "later" ELSE owed
    /\ excused' = TRUE /\ rearmFaults' = rearmFaults + 1
    /\ clicks' = [clicks EXCEPT ![c] = "none"]
    /\ UNCHANGED <<armed, key, scheduled, thread>>

WebDies ==
    /\ rearmFaults < MaxRearmFaults
    /\ clicks' = [c \in Clicks |-> "none"]
    /\ rearmFaults' = rearmFaults + 1
    /\ UNCHANGED <<armed, key, scheduled, thread, owed, excused>>

-----------------------------------------------------------------------------
(* The scheduler's thread.                                                 *)

Boundary == \E on \in IF scheduled THEN BOOLEAN ELSE {armed} :
    armed' = on /\ owed' = IF on THEN "nothing" ELSE owed

\* Mutant: without a schedule the thread does not look for a key either.
SchedulerTickOnlyWithSchedule ==
    /\ thread = "waiting" /\ scheduled
    /\ thread' = "key"
    /\ Boundary
    /\ UNCHANGED <<key, scheduled, clicks, rearmFaults, excused>>

\* _run wakes _tick, which first brings any boundary the schedule has passed.
SchedulerTick ==
    /\ thread = "waiting"
    /\ thread' = "key"
    /\ Boundary
    /\ UNCHANGED <<key, scheduled, clicks, rearmFaults, excused>>

\* _check_pending_rearm
ReadKey ==
    /\ thread = "key"
    /\ thread' = IF key = "due" THEN "delete" ELSE "waiting"
    /\ UNCHANGED <<armed, key, scheduled, clicks, rearmFaults, owed, excused>>

\* Mutant: the key is deleted and the re-arm left to the next look.
DeleteKeyOnly ==
    /\ thread = "delete"
    /\ key' = "none"
    /\ thread' = "waiting"
    /\ UNCHANGED <<armed, scheduled, clicks, rearmFaults, owed, excused>>

\* The key is deleted, whatever is stored under it by now.
DeleteKey ==
    /\ thread = "delete"
    /\ key' = "none"
    /\ thread' = "allow"
    /\ UNCHANGED <<armed, scheduled, clicks, rearmFaults, owed, excused>>

\* Redis refuses one of the two, which is logged at debug level.
RedisRefusesThread ==
    /\ thread \in {"key", "delete"} /\ rearmFaults < MaxRearmFaults
    /\ thread' = "waiting" /\ rearmFaults' = rearmFaults + 1
    /\ UNCHANGED <<armed, key, scheduled, clicks, owed, excused>>

\* _schedule_allows_rearm says whether the system is armed or left.
Rearms ==
    /\ thread = "allow"
    /\ thread' = "waiting"
    /\ armed' \in IF scheduled THEN {TRUE, armed} ELSE {TRUE}
    /\ owed' = "nothing"
    /\ UNCHANGED <<key, scheduled, clicks, rearmFaults, excused>>

\* The detector dies; a key it has deleted is gone.
DetectorDies ==
    /\ rearmFaults < MaxRearmFaults
    /\ excused' = (excused \/ thread = "allow")
    /\ thread' = "waiting" /\ rearmFaults' = rearmFaults + 1
    /\ UNCHANGED <<armed, key, scheduled, clicks, owed>>

\* ArmScheduler.configure on a reload.
ScheduleSwitched ==
    /\ scheduled' = ~scheduled
    /\ UNCHANGED <<armed, key, clicks, thread, rearmFaults, owed, excused>>

SchedulerStep == SchedulerTick \/ ReadKey \/ DeleteKey \/ Rearms
RearmNext ==
    \/ RearmFallsDue
    \/ \E c \in Clicks :
          \/ ArmClick(c) \/ DisarmByAdmin(c) \/ DisarmByUser(c) \/ CancelRearm(c)
          \/ SetRearm(c) \/ ClearRearm(c) \/ RedisRefusesWeb(c)
    \/ WebDies \/ ScheduleSwitched
    \/ SchedulerStep \/ RedisRefusesThread \/ DetectorDies

RearmSpec == RearmInit /\ [][RearmNext]_rearmVars

\* The scheduler's thread wakes every thirty seconds; clicks come or do not.
RearmFairness == WF_rearmVars(SchedulerStep)

-----------------------------------------------------------------------------
\* A time of re-arming a user was shown stands until the system is armed, the
\* schedule suppresses the re-arm or somebody clears it: two requests whose Redis
\* calls overtake each other and a tick between them lose none.
RearmKept ==
    owed # "nothing" /\ ~excused => key # "none" \/ thread = "allow"

\* The key, the flag and the clicks in hand agree with what users were shown.
RearmHolds == RearmTypeOK /\ RearmKept

\* A key that has fallen due is consumed, whatever the schedule.
DueKeyIsConsumed == []<>(key # "due")
=============================================================================

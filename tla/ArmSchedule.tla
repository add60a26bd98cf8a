----------------------------- MODULE ArmSchedule -----------------------------
(***************************************************************************)
(* The daily schedule of services/detector/src/scheduler.py and its copy   *)
(* in routes/dashboard.py: which boundaries a look of the scheduler finds, *)
(* which one is shown as the next, and whether a re-arm is allowed.        *)
(*                                                                         *)
(* Times are ticks of a clock that goes round once a day; an instant is    *)
(* counted from some midnight, UTC.  The local clock is `west` behind UTC. *)
(* The solar schedule, whose times astral gives in UTC, is west = 0.       *)
(***************************************************************************)
EXTENDS Integers, Sequences, SequencesExt, FiniteSets

CONSTANTS
    Day,         \* ticks in a day
    Schedules,   \* schedules: arm_time, disarm_time (local) and west
    MaxElapsed   \* bound: the scheduler's thread looks at least this often

ASSUME ScheduleAssumption ==
    /\ Day \in Nat \ {0} /\ MaxElapsed \in Nat
    /\ Schedules \subseteq [arm : 0 .. Day - 1, disarm : 0 .. Day - 1, west : Int]

VARIABLES
    times,    \* the schedule ArmScheduler is configured with
    enabled,  \* ArmScheduler._enabled
    clock,    \* UTC
    elapsed,  \* since _last_tick
    fired,    \* the boundaries the last look found
    window    \* what the last boundary that fired says; "none" before one has

scheduleVars == <<times, enabled, clock, elapsed, fired, window>>

Today == 2 * Day + clock

ScheduleTypeOK ==
    /\ times \in Schedules /\ enabled \in BOOLEAN
    /\ clock \in 0 .. Day - 1 /\ elapsed \in 0 .. MaxElapsed
    /\ \A i \in DOMAIN fired : /\ fired[i] \in [at : Int, armed : BOOLEAN]
                               /\ fired[i].at \in Today - MaxElapsed + 1 .. Today
    /\ window \in {"armed", "disarmed", "none"}

-----------------------------------------------------------------------------
\* _get_arm_time and _get_disarm_time through _localtime_to_utc: what a date
\* stands for.
Boundaries(date) ==
    {[at |-> date * Day + times.arm + times.west, armed |-> TRUE],
     [at |-> date * Day + times.disarm + times.west, armed |-> FALSE]}

\* The sort by time is stable, and a date's arming comes first.
Earlier(a, b) == a.at < b.at \/ (a.at = b.at /\ a.armed /\ ~b.armed)

InOrder(found) ==
    CHOOSE s \in [1 .. Cardinality(found) -> found] :
        \A i, j \in 1 .. Cardinality(found) : i < j => Earlier(s[i], s[j])

\* The boundaries of some dates in (start, end], by time.
Within(dates, start, end) ==
    InOrder({b \in UNION {Boundaries(d) : d \in dates} : start < b.at /\ b.at <= end})

\* Mutant: both ends of the interval count.
TransitionsBetweenClosed(start, end) == Within(start \div Day .. end \div Day, start - 1, end)

\* Mutant: the day the interval ends in is left out.
TransitionsBetweenOneDate(start, end) == Within({start \div Day}, start, end)

\* transitions_between looks at the dates the interval has in UTC.
TransitionsBetween(start, end) == Within(start \div Day .. end \div Day, start, end)

\* What there is to find, whatever the date.
AllTransitions(start, end) == Within(start \div Day - 2 .. end \div Day + 2, start, end)

\* Mutant: the first date only.
NextTransitionToday(instant) ==
    LET found == Within({instant \div Day}, instant, instant + 2 * Day)
    IN  IF found = <<>> THEN <<>> ELSE <<Head(found)>>

FirstOf(days) == CHOOSE i \in days : \A j \in days : i <= j

\* next_transition_after: the earliest boundary ahead of
\* the first of three dates that has one.  A sequence of at most one.
NextTransition(instant) ==
    LET ahead(i) == Within({instant \div Day + i}, instant, instant + 4 * Day)
        days == {i \in 0 .. 2 : ahead(i) # <<>>}
    IN  IF days = {} THEN <<>>
        ELSE <<Head(ahead(FirstOf(days)))>>

\* _get_schedule_info computes it again for the dashboard.
ScheduleInfo == NextTransition(Today)

\* Mutant: the window is taken from the first boundary of the day.
AllowsRearmFirst ==
    LET recent == TransitionsBetween(Today - Day, Today)
    IN  enabled /\ recent # <<>> => Head(recent).armed

\* _schedule_allows_rearm
AllowsRearm ==
    LET recent == TransitionsBetween(Today - Day, Today)
    IN  enabled /\ recent # <<>> => Last(recent).armed

-----------------------------------------------------------------------------
ScheduleInit ==
    /\ times \in Schedules /\ enabled \in BOOLEAN
    /\ clock = 0 /\ elapsed = 0
    /\ fired = <<>> /\ window = "none"

ScheduleClock ==
    /\ elapsed < MaxElapsed
    /\ clock' = (clock + 1) % Day
    /\ elapsed' = elapsed + 1
    /\ fired' = <<>>
    /\ UNCHANGED <<times, enabled, window>>

\* configure: the boundaries since the last look are judged by the new schedule.
Reconfigure ==
    /\ times' \in Schedules /\ enabled' \in BOOLEAN
    /\ <<times', enabled'>> # <<times, enabled>>
    /\ fired' = <<>> /\ window' = "none"
    /\ UNCHANGED <<clock, elapsed>>

\* _tick without what it does with a boundary: that is Rearm's and ArmFile's.
Look ==
    LET found == IF enabled THEN TransitionsBetween(Today - elapsed, Today) ELSE <<>> IN
    /\ elapsed > 0
    /\ elapsed' = 0
    /\ fired' = found
    /\ window' = IF found = <<>> THEN window ELSE IF Last(found).armed THEN "armed" ELSE "disarmed"
    /\ UNCHANGED <<times, enabled, clock>>

ScheduleNext == ScheduleClock \/ Reconfigure \/ Look

ScheduleSpec == ScheduleInit /\ [][ScheduleNext]_scheduleVars

-----------------------------------------------------------------------------
\* The window the fired boundaries have left is the window of the schedule, until
\* the next boundary has passed: the looks between them miss none.
WindowIsCurrent ==
    LET passed == AllTransitions(Today - Day, Today) IN
    enabled /\ window # "none" /\ AllTransitions(Today - elapsed, Today) = <<>>
        => (window = "armed" <=> Last(passed).armed)

\* What the dashboard shows as the next transition is the next to come.
ShownIsNext ==
    ScheduleInfo = <<Head(AllTransitions(Today, Today + Day))>>

\* A re-arm is allowed just where the boundaries that have fired left the system
\* armed, if one has fired and none has passed since.
RearmKeepsToTheWindow ==
    enabled /\ window # "none" /\ AllTransitions(Today - elapsed, Today) = <<>>
        => (AllowsRearm <=> window = "armed")

\* The boundaries of a local date fall on the same date of UTC.
SameDate == \A b \in Boundaries(0) : b.at \in 0 .. Day - 1

\* Whatever the looks of the thread and the changes of the schedule, what fires,
\* what the dashboard shows and what a re-arm asks agree with the schedule, as
\* long as its boundaries are on the same date in local time and in UTC.
ScheduleHolds ==
    /\ ScheduleTypeOK
    /\ SameDate => WindowIsCurrent /\ ShownIsNext /\ RearmKeepsToTheWindow

\* transitions_between: "Return all arm/disarm transitions in the half-open
\* interval (start, end]."  The getters read the dates of the interval, which are
\* UTC's, as local ones: an evening west of Greenwich is never looked for.
AllTransitionsFound ==
    TransitionsBetween(Today - elapsed, Today) = AllTransitions(Today - elapsed, Today)
=============================================================================

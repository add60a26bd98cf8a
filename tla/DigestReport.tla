---------------------------- MODULE DigestReport ----------------------------
(***************************************************************************)
(* What a digest says (notifier/src/digest.py, digest_db.py): the report   *)
(* is put together by one query after the other, each on a connection of   *)
(* its own, while the detector inserts rows, people label them and the     *)
(* retention cleaner deletes old ones.  A camera's outage reaches the      *)
(* notifier as a health alert, the digest as rows of detection_events.     *)
(***************************************************************************)
EXTENDS Integers, FiniteSets, FiniteSetsExt

CONSTANTS
    Classes,        \* classes of the detector
    PeriodLength,   \* instants in the period of a report
    Retention,      \* unlabelled rows older than this are deleted
    LastSecond,     \* bound: the clock stops there
    Readings        \* pairs <<CPU load, GPU temperature>> as bands: 0 normal,
                    \* 1 above the yellow threshold, 2 above the red one, or
                    \* NoReading for a null average

ASSUME ReportAssumption ==
    /\ IsFiniteSet(Classes) /\ PeriodLength \in Nat \ {0} /\ Retention \in Nat /\ LastSecond \in Nat
    /\ Readings \subseteq (-1 .. 2) \X (-1 .. 2)

VARIABLES
    second,     \* the clock
    recorded,   \* history: every row inserted, [at, class, label]
    gone,       \* rows the cleaner has deleted
    outages,    \* history: the instants of the camera_offline alerts
    query,      \* the next query of generate(), or "none"
    answers,    \* what the queries have returned so far
    reading     \* the averages of the period's metrics

reportVars == <<second, recorded, gone, outages, query, answers, reading>>

OutageClass == "camera_offline"
Labels == {"none", "correct", "false_positive"}
Rows == [at : 0..LastSecond, class : Classes, label : Labels]
table == recorded \ gone
NoReading == -1
OfflineRed == 2      \* _CAMERA_OFFLINE_RED, ten in the code

NoAnswers == [since |-> 0, total |-> 0, byClass |-> [c \in Classes |-> 0], prev |-> 0,
              offline |-> 0, light |-> "none", labelled |-> 0, false |-> 0]

ReportInit ==
    /\ second = 0 /\ recorded = {} /\ gone = {} /\ outages = {}
    /\ query = "none" /\ answers = NoAnswers
    /\ reading \in Readings

----------------------------------------------------------------------------
(* The queries of digest_db.py.                                            *)

\* A mutant: the row at the boundary is counted in both periods.
CountBoth(rows, since, until) == Cardinality({r \in rows : since <= r.at /\ r.at <= until})

\* timestamp >= since AND timestamp < until
Count(rows, since, until) == Cardinality({r \in rows : since <= r.at /\ r.at < until})

CountEventsByClass(rows, since) ==
    [c \in Classes |-> Count({r \in rows : r.class = c}, since, LastSecond + 1)]

CameraOfflineCount(rows, since) ==
    Count({r \in rows : r.class = OutageClass}, since, LastSecond + 1)

FeedbackSummary(rows, since) ==
    [l \in Labels |-> Count({r \in rows : r.label = l}, since, LastSecond + 1)]

\* Python's round(): the nearest integer to n / d, the even one of two.
Round(n, d) ==
    LET up == (2 * n + d) \div (2 * d)
    IN  IF (2 * n + d) % (2 * d) = 0 /\ up % 2 = 1 THEN up - 1 ELSE up

\* Change to the previous period in percent.
ChangePercent(total, prev) ==
    IF prev > 0 THEN Round((total - prev) * 100, prev)
    ELSE IF total > 0 THEN 100 ELSE 0

\* A mutant: the last reading decides.
StoplightOfTheLast(cpu, gpu, offline) ==
    IF offline >= OfflineRed THEN "red"
    ELSE IF offline >= 1 THEN "yellow"
    ELSE IF gpu >= 0 THEN <<"green", "yellow", "red">>[gpu + 1]
    ELSE IF cpu >= 0 THEN <<"green", "yellow", "red">>[cpu + 1]
    ELSE "green"

\* _stoplight: red as soon as one reading is, else the yellow ones stay.
Stoplight(cpu, gpu, offline) ==
    IF cpu = 2 \/ gpu = 2 \/ offline >= OfflineRed THEN "red"
    ELSE IF cpu = 1 \/ gpu = 1 \/ offline >= 1 THEN "yellow"
    ELSE "green"

----------------------------------------------------------------------------
(* generate(), query by query.                                             *)

Ask(name, next, result) ==
    /\ query = name /\ query' = next
    /\ answers' = result
    /\ UNCHANGED <<second, recorded, gone, outages, reading>>

StartReport ==
    Ask("none", "total", [NoAnswers EXCEPT !.since = second - PeriodLength])

AskTotal ==
    Ask("total", "class", [answers EXCEPT !.total = Count(table, answers.since, LastSecond + 1)])

AskByClass ==
    Ask("class", "prev", [answers EXCEPT !.byClass = CountEventsByClass(table, answers.since)])

AskPrevious ==
    Ask("prev", "offline",
        [answers EXCEPT !.prev = Count(table, answers.since - PeriodLength, answers.since)])

AskHealth ==
    LET offline == CameraOfflineCount(table, answers.since) IN
    Ask("offline", "feedback",
        [answers EXCEPT !.offline = offline,
                        !.light = Stoplight(reading[1], reading[2], offline)])

AskFeedback ==
    LET summary == FeedbackSummary(table, answers.since) IN
    Ask("feedback", "done",
        [answers EXCEPT !.false = summary["false_positive"],
                        !.labelled = summary["correct"] + summary["false_positive"]])

----------------------------------------------------------------------------
(* The other services, between any two queries.                            *)

NewEvent(c) ==
    /\ query # "done"
    /\ ~ \E r \in recorded : r.at = second /\ r.class = c
    /\ recorded' = recorded \union {[at |-> second, class |-> c, label |-> "none"]}
    /\ UNCHANGED <<second, gone, outages, query, answers, reading>>

Labelled(r, l) ==
    /\ query # "done" /\ r.label = "none" /\ l # "none"
    /\ recorded' = (recorded \ {r}) \union {[r EXCEPT !.label = l]}
    /\ UNCHANGED <<second, gone, outages, query, answers, reading>>

\* The cleaner deletes the unlabelled rows past the retention.
PruneOld ==
    LET old == {r \in table : r.label = "none" /\ r.at < second - Retention} IN
    /\ query # "done" /\ old # {}
    /\ gone' = gone \union old
    /\ UNCHANGED <<second, recorded, outages, query, answers, reading>>

\* An outage: the alert goes out on openring:health and to the channels.
\* Neither the detector nor the notifier inserts a row for it.
CameraGoesOffline ==
    /\ query = "none" /\ second \notin outages
    /\ outages' = outages \union {second}
    /\ UNCHANGED <<second, recorded, gone, query, answers, reading>>

\* A report takes less than an instant.
SecondPasses ==
    /\ query = "none" /\ second < LastSecond
    /\ second' = second + 1
    /\ UNCHANGED <<recorded, gone, outages, query, answers, reading>>

ReportNext ==
    \/ StartReport \/ AskTotal \/ AskByClass \/ AskPrevious \/ AskHealth \/ AskFeedback
    \/ \E c \in Classes : NewEvent(c)
    \/ \E r \in table, l \in Labels : Labelled(r, l)
    \/ PruneOld \/ CameraGoesOffline \/ SecondPasses

ReportSpec == ReportInit /\ [][ReportNext]_reportVars

----------------------------------------------------------------------------

ReportTypeOK ==
    /\ second \in 0..LastSecond /\ recorded \subseteq Rows /\ gone \subseteq recorded
    /\ outages \subseteq 0..LastSecond
    /\ query \in {"none", "total", "class", "prev", "offline", "feedback", "done"}
    /\ answers.light \in {"none", "green", "yellow", "red"}

\* The queries of one report see a table that changes under them, and still
\* its numbers fit, if its rows are kept for the period: the classes add up to
\* no less than the total, and to more only by the rows of the instant the report
\* was made in; the rate of false positives is at most one.
ReportAddsUp ==
    query = "done" /\ Retention >= PeriodLength =>
        LET sum == SumFunction(answers.byClass)
            fresh == Cardinality({r \in recorded : r.at = second})
        IN /\ answers.total <= sum /\ sum <= answers.total + fresh
           /\ answers.false <= answers.labelled /\ answers.labelled <= sum + fresh

\* The comparison is with what the previous period held, none of it counted in
\* both periods and, if rows are kept for two of them, none of it deleted; it
\* never has the wrong sign, and is zero for half a percent of difference at most.
PreviousPeriod == {r \in recorded : answers.since - PeriodLength <= r.at /\ r.at < answers.since}

ComparisonIsFair ==
    query = "done" =>
        LET change == ChangePercent(answers.total, answers.prev)
        IN /\ Retention >= 2 * PeriodLength => answers.prev = Cardinality(PreviousPeriod)
           /\ change > 0 => answers.total > answers.prev
           /\ change < 0 => answers.total < answers.prev
           /\ change = 0 => /\ 200 * (answers.total - answers.prev) <= answers.prev
                            /\ 200 * (answers.prev - answers.total) <= answers.prev

\* The light is the worst of the three readings.
LightIsTheWorst ==
    LET offline == IF answers.offline >= OfflineRed THEN 2 ELSE answers.offline
        worst == Max({reading[1], reading[2], offline})
    IN answers.light # "none" => answers.light = <<"green", "yellow", "red">>[worst + 1]

\* The report as a whole.
ReportHolds == ReportTypeOK /\ ReportAddsUp /\ ComparisonIsFair /\ LightIsTheWorst

\* "vs prior period" (digest.py:138): the comparison is with all that the period
\* before held.
\* The code does not keep this when rows are kept for less than two periods, as in
\* a monthly report under retention_days: 30 (config/openring.example.yml:13); TLC
\* refutes it with Retention = 1 (README, section 3).
PriorPeriodIsWhole == query = "done" => answers.prev = Cardinality(PreviousPeriod)

\* "any offline events = yellow": a period with an outage is not all green.
\* The code does not keep this; TLC refutes it (README, section 3).
OutageIsNotGreen ==
    answers.light = "green" => \A o \in outages : o < answers.since
=============================================================================

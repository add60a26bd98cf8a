------------------------------- MODULE Digest -------------------------------
(***************************************************************************)
(* The digest of the notifier: the scheduler thread that wakes every       *)
(* minute, decides from the clock, the timezone and the configuration      *)
(* whether the report of the day is due, generates it and hands it to      *)
(* dispatch() without a retry queue (digest_scheduler.py, digest.py); and  *)
(* the config watcher, which first replaces the notifiers and then, in a   *)
(* step of its own, the scheduler's settings (notifier/src/main.py).       *)
(***************************************************************************)
EXTENDS Integers, FiniteSets

CONSTANTS
    Channels,        \* the names of the notification channels
    DayLength,       \* instants in a day; the thread wakes in each of them
    Week,            \* days between two weekly reports
    Month,           \* days between two monthly reports
    Timezones,       \* the offsets the timezone setting takes
    Times,           \* the times of day the report is set to
    LastInstant,     \* bound: the clock stops there
    MaxDigestFaults  \* bound: failures, saved configurations and restarts

\* A timezone is less than a day away from UTC.
ASSUME DigestAssumption ==
    /\ DayLength \in Nat \ {0} /\ Week \in Nat \ {0} /\ Month \in Nat \ {0}
    /\ Timezones \subseteq -DayLength .. DayLength /\ Times \subseteq 0 .. DayLength - 1
    /\ LastInstant \in Nat /\ MaxDigestFaults \in Nat

VARIABLES
    instant,    \* the clock, in UTC
    woken,      \* the thread has run _tick in this instant
    report,     \* its settings: [enabled, frequency, time, channels]
    zone,       \* its timezone, an offset to the clock
    notifiers,  \* the names of the notifiers that are built
    reload,     \* the configuration the watcher is applying, or NoReload
    lastSent,   \* _last_sent_date, or NoDate
    sending,    \* the report at hand: [phase, date, channels, left]
    delivered,  \* delivered[d]: the channels that received the report of date d
    issued,     \* history: for each date, how often its report was dispatched
    quiet,      \* history: no fault and no save since the local midnight
    calm,       \* history: no restart and no change of the timezone so far
    trouble     \* how many of MaxDigestFaults have happened

digestVars == <<instant, woken, report, zone, notifiers, reload, lastSent, sending,
                delivered, issued, quiet, calm, trouble>>

Frequencies == {"daily", "weekly", "monthly"}
ReportSettings == [enabled : BOOLEAN, frequency : Frequencies, time : Times,
             channels : SUBSET Channels]

\* The local date and time, for an offset that may be negative.
DateAt(h, z) == (h + z + DayLength) \div DayLength
TimeAt(h, z) == (h + z + DayLength) % DayLength
Dates == 0..((LastInstant + 2 * DayLength) \div DayLength)
NoDate == -1

NothingToSend == [phase |-> "idle", date |-> NoDate, channels |-> {}, left |-> {}]
NoReload == [pending |-> FALSE]
Reloads == [pending : {TRUE}, report : ReportSettings, zone : Timezones]

DigestInit ==
    /\ instant = 0 /\ woken = FALSE
    /\ report \in {s \in ReportSettings : s.enabled /\ s.channels = Channels}
    /\ zone \in Timezones
    /\ notifiers = Channels
    /\ reload = NoReload
    /\ lastSent = NoDate /\ sending = NothingToSend
    /\ delivered = [d \in Dates |-> {}] /\ issued = [d \in Dates |-> 0]
    /\ quiet = TRUE /\ calm = TRUE /\ trouble = 0

----------------------------------------------------------------------------
(* The scheduler thread.                                                   *)

\* Weekly reports go out on Mondays and monthly ones on the first.
OnItsDay(frequency, d) ==
    /\ frequency = "weekly" => d % Week = 1
    /\ frequency = "monthly" => d % Month = 1

Due(settings, h, z) ==
    /\ settings.enabled /\ settings.channels # {}
    /\ OnItsDay(settings.frequency, DateAt(h, z))
    /\ TimeAt(h, z) >= settings.time

\* _tick copies the settings under the lock and takes the clock; the report
\* is generated after it.
DigestTick ==
    /\ sending.phase = "idle" /\ ~woken
    /\ woken' = TRUE
    /\ sending' = IF Due(report, instant, zone) /\ lastSent # DateAt(instant, zone)
                  THEN [phase |-> "generate", date |-> DateAt(instant, zone),
                        channels |-> report.channels, left |-> {}]
                  ELSE sending
    /\ UNCHANGED <<instant, report, zone, notifiers, reload, lastSent, delivered, issued,
                   quiet, calm, trouble>>

\* A query of the report raises: the date is not marked, the next tick tries
\* again.
GenerateFails ==
    /\ sending.phase = "generate" /\ trouble < MaxDigestFaults
    /\ sending' = NothingToSend /\ trouble' = trouble + 1
    /\ quiet' = FALSE
    /\ UNCHANGED <<instant, woken, report, zone, notifiers, reload, lastSent, delivered,
                   issued, calm>>

\* dispatch() copies the notifiers and keeps those the report names.
Dispatched ==
    /\ sending.phase = "generate"
    /\ sending' = [sending EXCEPT !.phase = "send", !.left = sending.channels \cap notifiers]
    /\ issued' = [issued EXCEPT ![sending.date] = @ + 1]
    /\ UNCHANGED <<instant, woken, report, zone, notifiers, reload, lastSent, delivered,
                   quiet, calm, trouble>>

ChannelSends(c) ==
    /\ c \in sending.left
    /\ sending' = [sending EXCEPT !.left = @ \ {c}]
    /\ delivered' = [delivered EXCEPT ![sending.date] = @ \union {c}]
    /\ UNCHANGED <<instant, woken, report, zone, notifiers, reload, lastSent, issued,
                   quiet, calm, trouble>>

\* The notifier raises; dispatch() has no queue here, logs it and goes on.
ChannelRaises(c) ==
    /\ c \in sending.left /\ trouble < MaxDigestFaults
    /\ sending' = [sending EXCEPT !.left = @ \ {c}]
    /\ trouble' = trouble + 1
    /\ UNCHANGED <<instant, woken, report, zone, notifiers, reload, lastSent, delivered,
                   issued, quiet, calm>>

\* A mutant: the date that is marked is read when the sending has ended.
MarkedAtTheEnd(d) == DateAt(instant, zone)

\* _last_sent_date becomes the date _tick read.
Marked(d) == d

MarkSent ==
    /\ sending.phase = "send" /\ sending.left = {}
    /\ lastSent' = Marked(sending.date)
    /\ sending' = NothingToSend
    /\ UNCHANGED <<instant, woken, report, zone, notifiers, reload, delivered, issued,
                   quiet, calm, trouble>>

----------------------------------------------------------------------------
(* The clock, the config watcher and restarts.                             *)

\* The thread wakes once in every instant, unless it is busy sending.
TimePasses ==
    /\ instant < LastInstant
    /\ woken \/ sending.phase # "idle"
    /\ instant' = instant + 1 /\ woken' = FALSE
    /\ quiet' = (quiet \/ DateAt(instant + 1, zone) # DateAt(instant, zone))
    /\ UNCHANGED <<report, zone, notifiers, reload, lastSent, sending, delivered, issued,
                   calm, trouble>>

\* _on_config_change, first half: the notifiers of the new configuration.
RebuildNotifiers ==
    /\ ~reload.pending /\ trouble < MaxDigestFaults
    /\ \E s \in ReportSettings, z \in Timezones, built \in SUBSET Channels :
          /\ s.enabled => s.channels = built
          /\ ~s.enabled => s = [report EXCEPT !.enabled = FALSE]
          /\ reload' = [pending |-> TRUE, report |-> s, zone |-> z]
          /\ notifiers' = built
    /\ quiet' = FALSE /\ trouble' = trouble + 1
    /\ UNCHANGED <<instant, woken, report, zone, lastSent, sending, delivered, issued, calm>>

\* Second half: configure() replaces the settings under the scheduler's lock.
ConfigureDigest ==
    /\ reload.pending
    /\ report' = reload.report /\ zone' = reload.zone
    /\ calm' = (calm /\ reload.zone = zone)
    /\ reload' = NoReload
    /\ quiet' = FALSE
    /\ UNCHANGED <<instant, woken, notifiers, lastSent, sending, delivered, issued, trouble>>

\* The date that was sent is kept in memory only.
NotifierRestarts ==
    /\ trouble < MaxDigestFaults
    /\ lastSent' = NoDate /\ sending' = NothingToSend /\ woken' = FALSE
    /\ IF reload.pending
       THEN report' = reload.report /\ zone' = reload.zone
       ELSE UNCHANGED <<report, zone>>
    /\ reload' = NoReload
    /\ quiet' = FALSE /\ calm' = FALSE /\ trouble' = trouble + 1
    /\ UNCHANGED <<instant, notifiers, delivered, issued>>

DigestNext ==
    \/ DigestTick \/ GenerateFails \/ Dispatched \/ MarkSent
    \/ \E c \in Channels : ChannelSends(c) \/ ChannelRaises(c)
    \/ TimePasses \/ RebuildNotifiers \/ ConfigureDigest \/ NotifierRestarts

DigestSpec == DigestInit /\ [][DigestNext]_digestVars

----------------------------------------------------------------------------

DigestTypeOK ==
    /\ instant \in 0..LastInstant /\ trouble \in 0..MaxDigestFaults
    /\ {woken, quiet, calm} \subseteq BOOLEAN
    /\ report \in ReportSettings /\ zone \in Timezones /\ notifiers \subseteq Channels
    /\ reload = NoReload \/ reload \in Reloads
    /\ lastSent \in Dates \union {NoDate}
    /\ sending.phase \in {"idle", "generate", "send"}
    /\ sending.left \subseteq sending.channels
    /\ delivered \in [Dates -> SUBSET Channels]

\* A date has one report at most, as long as the notifier is not restarted
\* and its timezone is not changed: a failed channel does not make the
\* report go out again to the others, and a save does not either.
OneDigestADay == calm => \A d \in Dates : issued[d] <= 1

\* Sending that goes on past midnight does not cost the next day its report:
\* a local day that passes without a fault or a save, and that has a due
\* instant, has its report dispatched or at hand when it ends.
EndedDayHasItsDigest ==
    LET today == DateAt(instant, zone) IN
    quiet /\ calm /\ woken /\ Due(report, instant, zone)
          /\ TimeAt(instant, zone) = DayLength - 1
       => \/ issued[today] > 0
          \/ sending.phase # "idle"

\* What the two halves of the scheduler's promise come to.
DigestHolds == DigestTypeOK /\ OneDigestADay /\ EndedDayHasItsDigest

\* "Fire - only mark as sent if dispatch succeeds": a date that is marked was
\* delivered to some channel.
\* The code does not keep this; TLC refutes it (README, section 3).
MarkedIsDelivered == lastSent # NoDate => delivered[lastSent] # {}
=============================================================================

-------------------------- MODULE NotificationQueue --------------------------
(***************************************************************************)
(* services/notifier/src/notification_queue.py, with dispatch() and the    *)
(* retry worker of services/notifier/src/main.py that use it.              *)
(*                                                                         *)
(* A note is one event for one channel; notes are numbered in the order in *)
(* which dispatch() takes them up.  dispatch() runs in two threads, the    *)
(* subscribe loop and the recognition buffer's poll thread.  A send and    *)
(* what is done about its outcome are separate steps, because the locks    *)
(* are not held during network I/O.                                        *)
(*                                                                         *)
(* Time passes in ticks.  An entry carries the ticks until next_retry and  *)
(* the ticks since first_failed rather than the two timestamps, so that    *)
(* the state space is finite without a last moment.                        *)
(***************************************************************************)
EXTENDS Naturals, Sequences, SequencesExt

CONSTANTS
    Channels,      \* notification channels of the configuration
    NumNotes,      \* notes in one behaviour (a bound)
    Backoff,       \* _BACKOFF_STEPS, in ticks
    MaxAge,        \* _MAX_AGE_SECONDS, in ticks
    MaxQueue,      \* _MAX_QUEUE_SIZE
    MaxCrashes     \* crashes in one behaviour (a bound)

ASSUME QueueAssumption ==
    /\ NumNotes \in Nat /\ MaxAge \in Nat \ {0} /\ MaxQueue \in Nat \ {0}
    /\ MaxCrashes \in Nat
    /\ Backoff \in Seq(Nat \ {0}) /\ Backoff # <<>>

VARIABLES
    up,          \* the notifier process runs
    issued,      \* number of notes dispatch() has taken up
    dispatcher,  \* per thread: the note it is sending or failed to send
    entries,     \* NotificationQueue._entries
    disk,        \* the queue file, or Torn
    enabled,     \* channels with a notifier in the current configuration
    worker,      \* the retry worker's round of process_due
    delivered,   \* delivered[n]: times note n reached its channel, up to Many
    gone,        \* notes given up for a reason the code states, or lost by a crash
    crashes      \* crashes so far

vars == <<up, issued, dispatcher, entries, disk, enabled, worker, delivered, gone, crashes>>

Notes == 1 .. NumNotes
Dispatchers == {"loop", "buffer"}

Many == 2
OneMore(n) == IF n < Many THEN n + 1 ELSE Many

\* Ages count up to just past the window, waits down to zero.
Old == MaxAge + 1
LongestWait == Max({Backoff[i] : i \in DOMAIN Backoff})
Sooner(wait, ticks) == IF wait > ticks THEN wait - ticks ELSE 0
Step(attempt) == Backoff[Min({attempt + 1, Len(Backoff)})]

Entry == [note : Notes, channel : Channels, attempt : 0 .. Len(Backoff),
          wait : 0 .. LongestWait, age : 0 .. Old]

\* A file that json.loads rejects: a sequence that is no list of entries.
Torn == <<[note |-> 0, channel |-> "none", attempt |-> 0, wait |-> 0, age |-> 0]>>

Idle == [at |-> "idle", note |-> 0, channel |-> "none", wait |-> 0, age |-> 0]

Asleep == [at |-> "asleep", due |-> <<>>, targets |-> {}, done |-> {}, late |-> 0]

\* Types, and _MAX_QUEUE_SIZE: the list and the file stay within it.
TypeOK ==
    /\ up \in BOOLEAN
    /\ issued \in 0 .. NumNotes
    /\ \A d \in Dispatchers : dispatcher[d].at \in {"idle", "sending", "stamped"}
    /\ entries \in Seq(Entry) /\ Len(entries) <= MaxQueue
    /\ disk = Torn \/ (disk \in Seq(Entry) /\ Len(disk) <= MaxQueue)
    /\ enabled \subseteq Channels
    /\ worker.at \in {"asleep", "sending", "commit"}
    /\ worker.due \in Seq(Entry) /\ worker.done \subseteq Notes
    /\ delivered \in [Notes -> 0 .. Many]
    /\ gone \subseteq Notes
    /\ crashes \in 0 .. MaxCrashes

Init ==
    /\ up = TRUE
    /\ issued = 0
    /\ dispatcher = [d \in Dispatchers |-> Idle]
    /\ entries = <<>>
    /\ disk = <<>>
    /\ enabled = Channels
    /\ worker = Asleep
    /\ delivered = [n \in Notes |-> 0]
    /\ gone = {}
    /\ crashes = 0

-----------------------------------------------------------------------------
NotesOf(q) == {q[i].note : i \in DOMAIN q}

\* The entries of q at the positions chosen, in their order.
Selected(q, chosen) ==
    LET upto[i \in 0 .. Len(q)] == IF i = 0 THEN <<>>
                                   ELSE IF i \in chosen THEN Append(upto[i - 1], q[i]) ELSE upto[i - 1]
    IN upto[Len(q)]

\* _save: the file holds the list, or the exception is logged and the file is
\* the old one or cut off.
Save(q) == disk' \in {q, disk, Torn}

Arrive(n) == delivered' = [delivered EXCEPT ![n] = OneMore(@)]

\* dispatch() takes up a note for a channel of its copy of the notifiers.
Dispatch(d, c) ==
    /\ up
    /\ dispatcher[d].at = "idle"
    /\ issued < NumNotes
    /\ c \in enabled
    /\ issued' = issued + 1
    /\ dispatcher' = [dispatcher EXCEPT ![d] = [at |-> "sending", note |-> issued', channel |-> c,
                                                wait |-> 0, age |-> 0]]
    /\ UNCHANGED <<up, entries, disk, enabled, worker, delivered, gone, crashes>>

\* notifier.send(event) returns: the note has arrived.
SendArrives(d) ==
    /\ dispatcher[d].at = "sending"
    /\ Arrive(dispatcher[d].note)
    /\ dispatcher' = [dispatcher EXCEPT ![d] = Idle]
    /\ UNCHANGED <<up, issued, entries, disk, enabled, worker, gone, crashes>>

\* notifier.send(event) raises; enqueue() stamps the entry with the time of
\* day before it asks for the lock.
SendRaises(d) ==
    /\ dispatcher[d].at = "sending"
    /\ dispatcher' = [dispatcher EXCEPT ![d].at = "stamped", ![d].wait = Backoff[1]]
    /\ UNCHANGED <<up, issued, entries, disk, enabled, worker, delivered, gone, crashes>>

\* The entry that enqueue() adds.
NewEntry(d) == [note |-> dispatcher[d].note, channel |-> dispatcher[d].channel, attempt |-> 0,
                wait |-> dispatcher[d].wait, age |-> dispatcher[d].age]

\* Mutant: a full queue is not noticed.
EnqueueUnbounded(d) ==
    /\ dispatcher[d].at = "stamped"
    /\ entries' = Append(entries, NewEntry(d))
    /\ Save(entries')
    /\ dispatcher' = [dispatcher EXCEPT ![d] = Idle]
    /\ UNCHANGED <<up, issued, enabled, worker, delivered, gone, crashes>>

\* enqueue() under the lock: a full queue drops its oldest entry.
Enqueue(d) ==
    /\ dispatcher[d].at = "stamped"
    /\ \/ /\ Len(entries) >= MaxQueue
          /\ entries' = Append(Tail(entries), NewEntry(d))
          /\ gone' = gone \cup {Head(entries).note}
       \/ /\ Len(entries) < MaxQueue
          /\ entries' = Append(entries, NewEntry(d))
          /\ UNCHANGED gone
    /\ Save(entries')
    /\ dispatcher' = [dispatcher EXCEPT ![d] = Idle]
    /\ UNCHANGED <<up, issued, enabled, worker, delivered, crashes>>

-----------------------------------------------------------------------------
Due == {i \in DOMAIN entries : entries[i].wait = 0}

\* process_due: the due entries and then the notifiers are copied.
StartRound ==
    /\ up
    /\ worker.at = "asleep"
    /\ Due # {}
    /\ worker' = [at |-> "sending", due |-> Selected(entries, Due), targets |-> enabled,
                  done |-> {}, late |-> 0]
    /\ UNCHANGED <<up, issued, dispatcher, entries, disk, enabled, delivered, gone, crashes>>

\* The loop over the copy goes on to the next entry, or to the commit.
NextDue(done) ==
    worker' = [worker EXCEPT !.due = Tail(@), !.done = done,
                             !.at = IF Len(worker.due) = 1 THEN "commit" ELSE "sending"]

Trying == worker.at = "sending"
Entry1 == Head(worker.due)

\* No notifier of that name any more: the entry stays as it is.
RetryDeferred ==
    /\ Trying
    /\ Entry1.channel \notin worker.targets
    /\ NextDue(worker.done)
    /\ UNCHANGED <<up, issued, dispatcher, entries, disk, enabled, delivered, gone, crashes>>

RetryArrives ==
    /\ Trying
    /\ Entry1.channel \in worker.targets
    /\ Arrive(Entry1.note)
    /\ NextDue(worker.done \cup {Entry1.note})
    /\ UNCHANGED <<up, issued, dispatcher, entries, disk, enabled, gone, crashes>>

\* The entry object, wherever it is in the list, gets its next attempt.  now is
\* the time at which the round started, worker.late ticks ago.
Rescheduled(e) ==
    LET attempt == Min({e.attempt + 1, Len(Backoff)}) IN
    [e EXCEPT !.attempt = attempt, !.wait = Sooner(Step(attempt), worker.late)]

\* Mutant: an entry that fails is removed like one that was delivered.
RetryRaisesRemoves ==
    /\ Trying
    /\ Entry1.channel \in worker.targets
    /\ NextDue(worker.done \cup {Entry1.note})
    /\ UNCHANGED <<up, issued, dispatcher, entries, disk, enabled, delivered, gone, crashes>>

\* Mutant: a failing entry is retried for ever.
RetryRaisesForEver ==
    /\ Trying
    /\ Entry1.channel \in worker.targets
    /\ entries' = [i \in DOMAIN entries |-> IF entries[i].note = Entry1.note
                                            THEN Rescheduled(entries[i]) ELSE entries[i]]
    /\ NextDue(worker.done)
    /\ UNCHANGED <<up, issued, dispatcher, disk, enabled, delivered, gone, crashes>>

\* target.send raises: the window is over and the entry is dropped, or it is
\* tried again later.
RetryRaises ==
    /\ Trying
    /\ Entry1.channel \in worker.targets
    /\ \/ /\ Entry1.age >= MaxAge
          /\ NextDue(worker.done \cup {Entry1.note})
          /\ gone' = gone \cup {Entry1.note}
          /\ UNCHANGED entries
       \/ /\ Entry1.age < MaxAge
          /\ entries' = [i \in DOMAIN entries |-> IF entries[i].note = Entry1.note
                                                  THEN Rescheduled(entries[i]) ELSE entries[i]]
          /\ NextDue(worker.done)
          /\ UNCHANGED gone
    /\ UNCHANGED <<up, issued, dispatcher, disk, enabled, delivered, crashes>>

\* Mutant: the delivered entries stay in the list.
CommitKeepsDelivered ==
    /\ worker.at = "commit"
    /\ Save(entries)
    /\ worker' = Asleep
    /\ UNCHANGED <<up, issued, dispatcher, entries, enabled, delivered, gone, crashes>>

\* The end of process_due, under the lock again: what was delivered or dropped
\* leaves the list as it is now, which enqueue() may have changed meanwhile.
Commit ==
    /\ worker.at = "commit"
    /\ entries' = Selected(entries, {i \in DOMAIN entries : entries[i].note \notin worker.done})
    /\ Save(entries')
    /\ worker' = Asleep
    /\ UNCHANGED <<up, issued, dispatcher, enabled, delivered, gone, crashes>>

-----------------------------------------------------------------------------
\* A reload of the configuration builds the list of notifiers anew.
Reload(now) ==
    /\ up
    /\ now # enabled
    /\ enabled' = now
    /\ UNCHANGED <<up, issued, dispatcher, entries, disk, worker, delivered, gone, crashes>>

Saving == worker.at = "commit" \/ \E d \in Dispatchers : dispatcher[d].at = "stamped"

InFlight == {dispatcher[d].note : d \in Dispatchers} \ {0}

\* The notifier dies, or is stopped: both threads that send are daemons.
Crash(whileSaving) ==
    /\ up
    /\ crashes < MaxCrashes
    /\ whileSaving => Saving
    /\ disk' = IF whileSaving THEN Torn ELSE disk
    /\ gone' = gone \cup ((NotesOf(entries) \cup InFlight) \ NotesOf(disk'))
    /\ up' = FALSE
    /\ entries' = <<>>
    /\ dispatcher' = [d \in Dispatchers |-> Idle]
    /\ worker' = Asleep
    /\ crashes' = crashes + 1
    /\ UNCHANGED <<issued, enabled, delivered>>

\* Mutant: the file is read without looking at the age of its entries.
RestartKeepsExpired ==
    /\ ~up
    /\ up' = TRUE
    /\ entries' = IF disk = Torn THEN <<>> ELSE disk
    /\ UNCHANGED <<issued, dispatcher, disk, enabled, worker, delivered, gone, crashes>>

\* _load: entries older than the window are discarded.
Restart ==
    /\ ~up
    /\ up' = TRUE
    /\ entries' = IF disk = Torn THEN <<>>
                  ELSE Selected(disk, {i \in DOMAIN disk : disk[i].age <= MaxAge})
    /\ gone' = IF disk = Torn THEN gone
               ELSE gone \cup (NotesOf(disk) \ NotesOf(entries'))
    /\ UNCHANGED <<issued, dispatcher, disk, enabled, worker, delivered, crashes>>

Aged(e) == [e EXCEPT !.wait = Sooner(@, 1), !.age = Min({@ + 1, Old})]

AgedAll(q) == [i \in DOMAIN q |-> Aged(q[i])]

\* A tick passes, for the list, the file and the entries being made.
Tick ==
    /\ entries' = AgedAll(entries)
    /\ disk' = IF disk = Torn THEN disk ELSE AgedAll(disk)
    /\ dispatcher' = [d \in Dispatchers |->
                        IF dispatcher[d].at = "stamped" THEN Aged(dispatcher[d]) ELSE dispatcher[d]]
    /\ worker' = IF worker.at = "sending"
                 THEN [worker EXCEPT !.late = Min({@ + 1, LongestWait})] ELSE worker
    /\ UNCHANGED <<up, issued, enabled, delivered, gone, crashes>>

DispatcherStep(d) == SendArrives(d) \/ SendRaises(d) \/ Enqueue(d)

WorkerStep == StartRound \/ RetryDeferred \/ RetryArrives \/ RetryRaises \/ Commit

Next ==
    \/ \E d \in Dispatchers : DispatcherStep(d) \/ \E c \in Channels : Dispatch(d, c)
    \/ WorkerStep
    \/ \E now \in SUBSET Channels : Reload(now)
    \/ \E whileSaving \in BOOLEAN : Crash(whileSaving)
    \/ Restart
    \/ Tick

Spec == Init /\ [][Next]_vars

\* The threads run on, the worker comes back every WORKER_INTERVAL seconds,
\* Docker restarts the container and time passes.
Fairness ==
    /\ \A d \in Dispatchers : WF_vars(DispatcherStep(d))
    /\ WF_vars(WorkerStep)
    /\ WF_vars(Restart)
    /\ WF_vars(Tick)

FairSpec == Spec /\ Fairness

-----------------------------------------------------------------------------
\* Where the note is in the notifier's hands.
Held(n) == \/ n \in NotesOf(IF up THEN entries ELSE disk)
           \/ \E d \in Dispatchers : dispatcher[d].note = n

\* Whatever the worker, dispatch() and reloads do to each other's list, a note
\* is delivered, still held, or given up for a reason the code states: pushed
\* out of a full queue, failing at the end of the window, or a crash that the
\* file does not cover.
NoNoteSilentlyLost ==
    \A n \in 1 .. issued : delivered[n] > 0 \/ Held(n) \/ n \in gone

\* A note reaches its channel at most once as long as the notifier has not
\* crashed: no round sends what an earlier round or dispatch() delivered.
AtMostOnceWithoutCrash ==
    crashes = 0 => \A n \in Notes : delivered[n] <= 1

\* A restart never brings back what the window has ended for.
NothingExpiredComesBack ==
    [][~up /\ up' => \A i \in DOMAIN entries' : entries'[i].age <= MaxAge]_vars

Queued(n) == n \in NotesOf(entries)

\* As long as its channel is configured, a queued note leaves the queue in the
\* end, delivered or given up.
QueueDrains ==
    <>[](enabled = Channels) => \A n \in Notes : Queued(n) ~> ~Queued(n)

\* notification_queue.py:11: "Notifications that remain undelivered for more
\* than 24 hours are discarded."
UndeliveredAreDiscarded == \A n \in Notes : Queued(n) ~> ~Queued(n)

\* However the dispatching threads, the retry round, reloads and crashes mix, a
\* note is queued, delivered or given up for a reason the code states, and
\* without a crash it is delivered once.
NotesHold == TypeOK /\ NoNoteSilentlyLost /\ AtMostOnceWithoutCrash
=============================================================================

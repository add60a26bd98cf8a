# TLA+ models of OpenRing

OpenRing is a self-hosted camera and doorbell system: a detector runs object
detection on RTSP streams, a Raspberry Pi doorbell posts presses and
heartbeats, a web service keeps accounts, configuration and pages, a notifier
sends messages, a recognizer and a clipper add face matches and clips. The
services are processes that share SQLite files, one YAML file and a Redis bus.
This directory holds specifications of the parts of that system in which
threads, requests, failures and restarts meet, the TLC configurations that
check them, and proofs checked by TLAPS.

## 1. The system

### Processes and what connects them

    doorbell Pi --HTTPS: press, heartbeat, register--> web
    web --Redis: openring:doorbell, openring:device--> notifier
    detector --Redis: openring:detections--> notifier, recognizer, clipper, web
    detector --Redis: openring:health--> notifier
    recognizer --Redis: recognitions--> notifier
    web --Redis: openring:enrollment--> recognizer
    web --Redis: the key openring:rearm_at--> detector
    web <--Redis RPC: snapshot, model classes, evaluation--> detector
    web, detector --openring.yml (load, modify, replace)--> detector, notifier (ConfigWatcher)
    web, detector, recognizer, clipper --SQLite: events, labels, visits, clips, auth--> each other

Redis pub/sub is fire and forget: what is published while nobody listens, or
while Redis is down, is gone. SQLite statements are atomic, sequences of them
are not unless they share a transaction. The web service runs its `async`
handlers on one event loop, so a handler is interrupted only at an `await`;
its watchdog and backup manager are threads beside it. Detector, notifier and
firmware are threaded.

### Components

For each: state, operations, what is hard, what must hold. PROJECT.json says of
each how far it is modelled.

| component | state | operations | hard behaviour | correct means |
|---|---|---|---|---|
| inference lock (`detector/fair_lock.py`) | held flag, queue of waiters' events | acquire with timeout, release (hand-over) | a wait times out while it is handed the lock | exclusive, FIFO, no turn lost, everybody served |
| press queue (`doorbell-firmware/button.py`, `common.py`) | deque, its file, flush threads | push, flush, periodic flush, POST with retries, restart | several threads post one head; full queue; power loss | a press leaves for a reason only; file follows the queue |
| press handler (`web/routes/doorbell.py`) | event rows, published messages | check token, insert row, publish, answer | row without publish, lost answers, late requests | each accepted press recorded and published, in order |
| notification retry queue (`notifier/notification_queue.py`, `main.py`) | list of entries, its file, worker's round | dispatch, enqueue, retry round, reload, restart | a round works on a copy while dispatch appends and trims | nothing lost or sent twice without a stated reason |
| recognition buffer (`notifier/recognition_buffer.py`) | pending map, deadline heap, worker | detection, recognition, expiry, shutdown flush | recognition, timeout, republication and shutdown race | each event dispatched exactly once |
| notification rules (`detector/main.py`, `notifier/main.py`, `face_rules.py`) | three copies of the file | match, publish, overrule, send, reload | copies taken at different times, the notifier's in two steps | an alert goes where one of the files in force says |
| accounts (`web/auth.py`, `routes/auth.py`, `routes/users.py`) | users, sessions, API tokens, bootstrap token file | setup, login, logout, user administration | gate and handler see different states; crashes in setup | claimed once, never without an admin |
| login lockout (`web/auth.py`) | failed attempts with their times | check, record | sliding window, boundary attempt | guesses bounded, lockout ends |
| rate limit (`shared/rate_limit.py`) | a counter and its TTL in Redis | count, set the TTL | two commands, either refused | a window's worth of requests, twice at its border |
| doorbell devices (`web/heartbeat_watchdog.py`, `routes/doorbell.py`) | device rows, pairing window, watchdog memory | pair, touch, delete, watchdog pass, restart | pass against heartbeats, re-pairing, lost publishes, restarts | silence noticed, memory equals what was told |
| camera threads and hot reload (`detector/main.py`, `model_pool.py`) | active cameras, reference counts | start, stop, reload | failed restart inside a reload, thread that does not stop | pool counts the cameras; a reload is applied |
| stream and camera health (`stream.py`, `camera_health.py`, `stats_collector.py`) | delays, ages of frames, alert flags | read, reconnect, tick, publish | flapping around thresholds, refused alerts | alerts earned, a dead camera found |
| events and publisher (`events.py`, `publisher.py`) | cooldown map, bounded buffer | row, publish, flush | Redis gone between row and publish, full buffer | no event lost below the bound, order kept |
| visits (`visit_tracker.py`) | active visits | detection, expiry, flush | popped before it is written | each detection in one visit |
| retention (`cleanup.py`, `routes/feedback.py`, `db.py`) | snapshots, clips, rows, labels | prune, label, link, count | label between look-up and unlink | labelled rows kept, pages agree |
| clipper (`clipper/`) | segment ring, ffmpeg, tasks, clips table | event, wait, cut, restart | the ring turns under a waiting event | a clip that is shown is whole |
| recognizer (`recognizer/main.py`, `db.py`) | slots, pool, recognitions | dispatch, match, record, publish | slots lost, stale faces, two deliveries | every event answered, only enrolled faces named |
| enrolment (`web/routes/recognizer.py`, `recognizer/enrollment.py`) | faces, photos, embeddings | create, upload, delete, sweep, embed | sweep against announcements, deletion against uploads | one embedding per photo, deleted is erased |
| arm control (`scheduler.py`, `routes/dashboard.py`) | armed flag, schedule, re-arm key | arm, disarm, transition, re-arm | two processes rewrite one file; midnight | the flag follows the file; a re-arm comes |
| configuration store and backups (`config_store.py`, `config_backup.py`) | YAML file, cache, backups | load, save, back up, restore | other services replace the file | the cache is current, each settled file backed up |
| configuration editor, deterrent page (`routes/config.py`, `routes/deterrent.py`) | pages open in browsers | show, edit, post | stale pages | what a page does not show stays |
| secrets (`shared/secret_box.py`) | key file, sealed fields | create key, seal, migrate, open | crash while the key is made, lost key | nothing plain on disk, everything read back |
| config watcher (`shared/config_watcher.py`) | remembered mtime | poll, load, call back | load or callback fails | a save is taken |
| digest (`digest_scheduler.py`, `digest.py`, `digest_db.py`) | last sent date, a report's numbers | tick, query, send | restart, failing channels, time zone; rows change between queries | one digest a day, numbers that add up |
| evaluation, model classes (`evaluator.py`, `model_classes_handler.py`, `routes/training.py`, `routes/models.py`) | shared Redis keys, two caches | ask, run, answer, upload | pages share the keys; a file is replaced while it is read | models judged alike, caches follow uploads |

Channels (Discord, e-mail, webhook, ntfy), rendering, statistics, cryptography
and URL checks are I/O or pure functions over bytes.

## 2. The modules

| module | models |
|---|---|
| `FairLock` | `FairLock.acquire/release` as used by `YOLODetector.predict` |
| `FifoMutex` | what that lock promises: a FIFO mutex with waits that give up |
| `SeqLemmas`, `FairLockProofs` | lemmas on sequences and sums, and an induction on the naturals; theorems about `FairLock` |
| `PressQueue` | the Pi: deque, file, flush threads, retries |
| `PressHandler` | the web service's press endpoint, Redis and the event rows |
| `PressDelivery` | the two composed over a network that loses and delays |
| `NotificationQueue`, `NotificationQueueProofs` | `dispatch()`, the retry queue, its worker and file; theorems about them |
| `RecognitionBuffer` | the coalescing buffer and its worker |
| `Coalescing` | what the buffer promises: the fate of each event |
| `AlertRouting` | notification, deterrent and face rules from the camera to the channels |
| `Accounts`, `AccountsProofs` | users, sessions, tokens, setup; theorems about them |
| `LoginLockout`, `RateLimit` | the per-address lockout; the counter in Redis |
| `DoorbellDevices` | pairing, heartbeats, presses as touches, the watchdog |
| `CameraLifecycle`, `CameraLifecycleProofs` | camera threads, their reload, the config watcher, the model pool's counts; theorems about them and about `CameraHealth` |
| `CameraHealth` | one camera from the stream's reconnects to the published alert |
| `ArmSchedule`, `Rearm`, `ArmFile` | the schedule's looks; the re-arm key; the flag and its file |
| `Detections` | cooldown, row, publication, buffer, visit |
| `Retention` | cleaner, labels, files, and what the pages count |
| `Clipper` | segment ring, ffmpeg, tasks, clips |
| `Recognizer`, `Enrollment` | matching of a detection; reference photos and embeddings |
| `ConfigStore`, `ConfigForm`, `DeterrentPage`, `SecretBox` | openring.yml: cache and backups; the editor; the deterrent page; secrets at rest |
| `Digest`, `DigestReport` | when a digest is sent; what it says |
| `ModelClasses`, `Evaluation` | the two conversations of a page with the detector about models |
| `MCWaiting`, `MCCameras`, `MCEvidence`, `MCConfiguration` | several modules, each explored on its own |
| `WaitingProofs`, `EvidenceProofs`, `ConfigurationProofs` | theorems about the modules the run of that name explores |
| the other `MC...` | one module for TLC |

`PressDelivery` composes two components: `PressQueue` (EXTENDS) and
`PressHandler` (INSTANCE), with one request slot per thread of the Pi for the
request it waits for and one for a request it gave up on but the host still
handles. `CameraLifecycle` contains the threads, the pool and the watcher.
Elsewhere the interface of two components is small, and each side models the
other by what it can do: `NotificationQueue` and `RecognitionBuffer` meet in the
notifier's `on_dispatch`, which is `Dispatch` of the one and the last step of
the other; `AlertRouting` holds an alert until its recognition comes or does
not, which is all the buffer promises (`Coalescing`); the re-arm and the
schedule appear in `ArmFile` as a transition at any time; a thread that outlives
its join in `CameraLifecycle` is the second thread of `Detections`; a repeated
delivery of `Detections` is what `Clipper` and `Recognizer` must bear.

### From code to state and actions

* **FairLock.** `pc`, `queue`, `isSet` are the thread's place in the code, the
  deque of events and the events' flags; `Acquire`, `Wake`, `Expire`,
  `Withdraw`, `Release` are the blocks under the internal lock and the wait
  between them. `Expire` is the wait that returns False and `Withdraw` the
  block after it, which finds out whether the lock was handed over meanwhile.
* **PressQueue, PressHandler, PressDelivery.** A press is the number of the
  push. Every block under `queue_lock` is one action; the POST between two
  blocks is a request that passes the stages of the handler (token check, row,
  publish, answer), any of which can fail or be interrupted by a crash of the
  web service or of Redis. A save has three results: written, refused before
  the file is opened, cut off after it. `gone` collects the presses the code
  gives up for a reason it states; `rows` and `published` count effects.
* **NotificationQueue.** An entry has its attempt, the ticks to its next retry
  and its age. A retry round is `StartRound` (due entries and notifiers are
  picked under the lock), one `RetryDeferred`, `RetryArrives` or `RetryRaises`
  per entry without the lock, and `Commit` under it. `Reload` changes the
  enabled channels; `Crash` may cut the file off in the middle of a save. What a
  list comprehension of the code keeps is `Selected`, a recursive function of the
  module's own: `SelectSeq` is built in, and nothing can be proved about it.
* **RecognitionBuffer.** The subscribe loop and the worker share a lock. The
  worker dispatches while it holds it; the loop dispatches after it let go.
  Deadlines count down in ticks.
* **Accounts.** A request is admitted by `Gate` or `GateAnonymous`, which
  remember who the caller is, and handled later, on the strength of that. The
  handlers do not await between their reads and writes, so each is one action;
  `/setup` is split at the points where a crash or the command line, a process
  of its own, can come between. The guards "not the last admin" are the WHERE
  clauses of the UPDATE and DELETE statements.
* **DoorbellDevices.** `silent` is the time since `last_seen_at`, up to the
  timeout plus one; a request of a device is `Arrive` (token accepted) and later
  `Touch`. A pass of the watchdog is `BeginPass` (rows read, devices judged)
  and one look per device; a look publishes and records, or records although
  Redis refused (`LostTransition`). `Restart` clears the memory.
* **LoginLockout.** Failed attempts by age in ticks; a login is one step.
* **CameraLifecycle.** `reload` is the place of the one thread that starts and
  stops cameras: `main` while it is `starting`, the watcher afterwards. The three
  loops of `_on_config_change` are `classes`, `cameras` and `removed`, with the
  cameras still to come in `todo`; `_stop_camera` is the detour `stopping` (the
  join), `stopped` (release of the model, removal of the health entry) and, in a
  restart, `restart`. `active` is `active_cameras`; the camera threads appear as
  `Report`, also those that outlived their join (`outlived`). `UpdateRaises` is
  the KeyError of main.py:769. `changed` compares the file's mtime with the one
  the watcher remembers.
* **AlertRouting.** `onFile` is the file, `copies` what the camera's rules, the
  notifier's face rules and its channels were taken from. `Detect` is
  `_match_rules` with the deterrents, `PressArrives` and `PressPublished` the
  press handler's, `ReceiveDirect` and `ReceiveBuffered` the notifier's two ways
  in, `Recognized` and `CoalesceTimeout` the two ways out of the buffer, with
  `DecidingFaceRules`. `alert.since` collects the files that were in force while
  the alert was on its way. None and an empty list are kept apart.
* **RateLimit.** A request is `CheckLimit`, `Incr`, `SetExpiry`, or
  `RateFailsOpen` where Redis refuses; `ttl` is `Forever` for a key without one.
* **CameraHealth.** `ReaderStep` is one turn of the camera's thread: open, read,
  report, sleep with the growing delay. `CollectorStep` is a wake of the stats
  collector: the alerts of the tracker, their publication, the flag that is set
  or not. Ages saturate where no comparison tells them apart.
* **ArmSchedule.** `Look` is a scheduler tick; `TransitionsBetween` is the code's
  search over local days, `ScheduleInfo` the dashboard's copy of it, `AllowsRearm`
  the test before a re-arm; `AllTransitions` defines what they are compared with.
* **Rearm.** `key` is openring:rearm_at. A click changes the flag and then, in a
  step of its own, the key. `owed` remembers that a user was shown a time.
* **ArmFile.** `file` has two settings that stand for all: the armed flag and one
  that another page saves. `web` is a handler between load and save, `thread` the
  scheduler between the flag and the file (`Transition`, `Load`, `Replace`),
  `watcher` the detector's poll, load and `ReloadArmed`.
* **Detections.** An event is its number; `stamp` has its time and thread. A
  thread goes `Detect`, `Decide` (cooldown), `SaveRow`, `FlushOne` per buffered
  event, `Publish` or `PublishFails` (lost request or lost reply), `RecordVisit`.
  A visit that is closed is in `closing` until `PersistVisit`.
* **Retention.** The cleaner is `StartRun`, `UnlinkSnapshot` per file,
  `ClearPaths`, `EnumerateClips`, `FilterLabelled`, `UnlinkClip` per file,
  `DeleteClipRows`, `PruneRows`, and may die anywhere; labels, rows and clips
  arrive between the steps. The pages' counts are the operators `Listed`,
  `ProtectedEvents`, `Positives`, `Exportable` over the same tables.
* **Clipper.** `ring` has the completion time of each file, `slot` the one ffmpeg
  writes. A task is submitted, started, gathers the segments when its post-roll
  is over, writes the clip, inserts the row. ffmpeg exits and is restarted with
  a back-off; a reload stops and starts it. `spoiled` collects the events a task of
  which ended without a row, or ran beside another task of the same event (it was
  delivered twice, and two workers have it at once): the code removes or
  overwrites their file, and `ClipsHold` excuses them.
* **Recognizer.** A delivery is skipped, refused, or takes a slot (`Dispatch`),
  waits in `poolQueue`, and a worker takes it through snapshot, faces, match, row
  and message; `current` collects whom it may name.
* **Enrollment.** `handler` is the web handler that has the event loop, between
  two of its effects; `announced` the channel; `recognizer` the sweep at a start
  and then the listener. Photos are numbered; 0 is a temporary file.
* **ConfigStore.** A file is the time of its write and whether it is sealed.
  `Save`/`SaveRemembers` are the two halves around `os.replace`; `WatchPoll`,
  `Debounced`, `WatchCopies`, `WatchRemembers` the backup thread.
* **ConfigForm, DeterrentPage.** A page is what it showed when it was opened;
  `StructuredSave` and `SaveDeterrent` merge the whole of it into the file, with
  what each keeps, drops and warns about.
* **SecretBox.** A sealed field is its value and key. A start is `WebStarts`,
  then `CreateKeyFile` and `WriteKey` (the file exists empty in between) or
  `KeyIsThere`, then the migration.
* **Digest.** `DigestTick` once per instant decides by `Due`; then generation, one
  step per channel, `MarkSent`. `RebuildNotifiers` and `ConfigureDigest` are the
  two halves of a reload.
* **DigestReport.** `query` is the next query of `generate()`; rows come, are
  labelled and are pruned between two. `Round` is Python's: half goes to the even
  number. The sums are claimed where retention covers the period, the comparison
  where it covers two.
* **ModelClasses.** Contents are numbered and so are their stamps; `Upload`,
  `ReplaceModel`, `ForgetClasses` are the upload handler, `TakeQuery`,
  `ExtractClasses`, `Reply` the detector's. A page waits for its answer for a time.
* **Evaluation.** `progress` and `result` are the shared keys. The evaluator loads
  the labelled snapshots, runs both models, computes the metrics of each class
  with its own matching, writes the keys.

## 3. The runs

Six runs pass, six refute a statement. Where a run has several parts, they are
modules that share no variable, put side by side: `part` is chosen in the
initial state and never changes, the actions of that part run, and all the
others are UNCHANGED, so the state space is the sum of the parts' and not their
product. Fairness is that of each module with `part = ...` in the action, so that a
part that sleeps owes no step. An invariant of such a run is the conjunction of
one module's invariants; each conjunct is a definition of its own with its own
comment. `MCEvidence` and `MCConfiguration` have a VIEW that keeps the variables
of the part that runs, the others being constant along every behaviour.

| run | part | instance | shows |
|---|---|---|---|
| `waiting` | lock | four threads | exclusion, FIFO, no lost turn, every thread served, refinement of `FifoMutex` |
| | buffer | 4 events, 2 tokens | exactly-once dispatch, refinement of `Coalescing`, every event dispatched |
| | press | 3 presses, 2 left in the file, queue of 2, 2 attempts, one fault | no press dropped without a reason, file follows queue, order, every press settles |
| | devices | one doorbell, 3 pairings, 2 faults | memory is what was told, silence is noticed |
| | lockout | limit 5, window of 4 ticks | guesses bounded, lockouts end |
| | rearm | two clicks in hand, one failure | a re-arm that was shown is not lost, a due key is consumed |
| | rate | two callers, capacity 2, window 3, one failure | at most two windows' worth in one window's time |
| `notification_queue` | | 3 notes, queue of 2, one crash | nothing lost or doubled without a reason, nothing expired returns, the queue drains |
| `accounts` | | 3 users, 2 requests, 2 credentials, one crash, both auth settings | claimed once, credentials have owners, the last admin stays |
| `cameras` | lifecycle | 2 cameras, 2 models, 3 configurations | the pool counts the cameras, reloads are complete, stopped cameras are forgotten, saves are taken |
| | health | debounce 2, threshold 4, interval 2, 4 flaps, one refused alert | alerts are earned, outages counted, a dead camera is found |
| | schedule | every pair of times of a day of 4 ticks, and three in local time | looks, dashboard and re-arm agree with a schedule whose boundaries have one date in local time and in UTC (for the others see `schedule_missed`) |
| `evidence` | detections | 2 threads, cooldown 1, visit timeout 2, buffer 1, 3 events | published in order and none lost, each in one visit |
| | retention | a detection, a press, a system event, of any age | labelled rows stay, the pages' counts agree |
| | clips | ring of 4, two workers, 2 deliveries, of one event or of two, one exit of ffmpeg | a clip that is shown is whole, and complete if it was cut in time |
| | recognizer | 3 deliveries of 2 events, one slot in the queue, one face | slots counted, answers recorded, only enrolled faces named |
| | enrollment | one face, 2 uploads, 2 photos, 2 faults | one embedding per photo, every photo embedded, deleted is erased |
| `configuration` | armfile | two settings, one form, both processes | the detector follows the file; a save undoes only what it raced |
| | store | 2 backups, 2 writes | a settled file is backed up; the cache follows the file |
| | deterrent | 2 pages, 2 devices, 2 names, one group | groups name devices that exist, credentials both or neither |
| | form | one page, 2 cameras, 3 saves | the form keeps the rest; viewers see no secret; dangling references are warned of |
| | secrets | 2 fields, 2 keys, 3 entries, 3 starts | nothing plain on disk, everything read back |
| | digest | 3 days of 2 instants, 2 channels, one fault | one digest a day, an ended day has its digest |
| | report | 3 readings, one class, 4 seconds | numbers add up, periods are compared fairly, the light is the worst |
| | classes | 2 pages, one upload, one fault | caches follow uploads, pages see the file |
| | evaluation | 2 pages, 2 snapshots, 3 predictions, one fault | both models judged alike, a page told of a result is given it |
| | routing | 3 files, 2 classes, 4 recognitions | settled alerts go where the file says, others where one in force said |

Sizes (distinct states): `notification_queue` about 340 000, `waiting` 160 000,
`cameras` 200 000, `configuration` 1.3 million.

Why these bounds are enough. The lock needs an owner, a thread that was handed
the lock and two that can be reordered behind it. A press is dropped wrongly
only by a thread that pops what another one posted: two threads, a full queue
and a press behind them show it, and one fault per behaviour puts each single
failure at each place. The retry queue needs a round with two entries and a
third one that is enqueued meanwhile. The buffer needs an event republished
under its token, one with its own and one without. Two requests are what can
work on each other's stale gate; three users let one admin act on another with
a third left. Doorbells meet only in the pairing window and in the order of a
pass, and a pass may take any time before it comes to the one of the instance.
A bound of five attempts is the default. One camera can be waiting in a loop of
the reload while another one is stopped or has failed to come back; the three
configurations differ in the default model, the global classes, a camera's own
model and classes, its tuning, and in which cameras are enabled.

A camera needs four changes of its stream to flap through debounce and threshold
in both directions; the constants keep the order of the code's defaults. The day of four
ticks has every order of arming, disarming, look and midnight. Two threads are
one that outlived its join and its successor; a buffer of one is full after one
failure. The rows of `Retention` are one of each kind the cleaner's WHERE clauses tell apart;
`AtATime` (a CONSTRAINT of `MCEvidence`) leaves out states in which all three are
recorded or old at once, in which more than one thing failed on the way of a
detection, and a third detection that follows no failure: the events are treated
alike and do not see each other. A ring of four with pre- and post-roll of one
turns under an event whose worker has its post-roll and a restart of ffmpeg to wait
for; the two workers are alike (SYMMETRY), and can work on one event at a time. In `configuration`, two
backups are enough to prune, two keys to have one lost, three days to have
one between two others, and the three routing files differ in every field the rules read.

Counters that the code never bounds (ids, pairings, crashes, faults, deliveries)
are bounded by constants or saturate (`Many`), and each bound is named where it
is declared. `CHECK_DEADLOCK FALSE` is set where the system really stops (all
presses delivered, the buffer shut down) or a bound of the instance is used up
(saves, events, days).

### Statements of the repository that do not hold

Six runs refute a statement; each run checks that statement alone.

| run | statement | what happens |
|---|---|---|
| `press_recorded_once` | docs/FIRMWARE.md:134-135, idempotency key | a retried POST inserts a second event row |
| `queue_undelivered` | notification_queue.py:11, discarded after 24 hours | an entry of a disabled channel is skipped before its age is read |
| `accounts_orphaned` | routes/users.py:7-9, a misclick can't orphan the instance | with auth off a plain user can be the first account; later nobody is admin and /setup is closed |
| `watchdog_restart` | heartbeat_watchdog.py:19-20, one event after a restart | the first look after a restart only records |
| `recognizer_snapshot` | recognizer/main.py:6, loads the snapshot of the feedback token | the detector saves it under camera, class and time (events.py:182): every recognition is an error |
| `schedule_missed` | scheduler.py:328, all transitions in the interval | the dates of the interval are UTC's and are read as local ones: an arming at 22:00 in California, which is the next date in UTC, never fires |

The following definitions state what a comment or a document says, or what one would
expect, and TLC refutes them when they are put in place of the properties of
their module's passing run; each is marked at its place in the module.

| definition | why not |
|---|---|
| `AlertRouting!LabelsStayInside` | an alert whose face rules do not apply returns (notifier main.py:143) before the recognition is stripped, which 167-172 call load-bearing for privacy |
| `Digest!MarkedIsDelivered` | dispatch() reports a failing channel to nobody, so the date is marked (digest_scheduler.py:115) although no channel got the digest |
| `DigestReport!OutageIsNotGreen` | outages are health alerts; no row of class camera_offline is ever inserted, which digest.py:16 counts |
| `DigestReport!PriorPeriodIsWhole` | "vs prior period" (digest.py:138): with `Retention = 1`, as in a monthly report under the example's retention_days: 30, the rows of the period before are already pruned when they are compared |
| `SecretBox!SealedFileIsLeftAlone` | a start saves a file again in which every secret was sealed |
| `SecretBox!EnteredAgainIsReadBack` | after a lost key, opening stops at the first field that is sealed with it, and those behind it stay sealed |
| `ConfigForm!HiddenCamerasStay` | a camera the parser skipped is not on the page, and saving the page removes it |
| `Retention!TrainingDataIsKept` | the cleaner keeps a labelled row but may take its snapshot, if the label came after the look-up |
| `RateLimit!LimitIsLifted` | EXPIRE refused after INCR: the key never expires (rate_limit.py:55) |
| `AlertRouting!EmptyRuleIsQuiet` | config/openring.example.yml:63-64 says that empty channels suppress; the empty list on the event (detector main.py:91) is "no rules" to the notifier (main.py:204), and every channel is told |
| `Evaluation!ShownResultIsItsOwn` | pages share the keys: one is shown the result of another's evaluation |
| `ModelClasses!UploadChangesTheClasses` | a camera's loaded model answers for the file that replaced it |
| `ConfigStore!ListedCanBeRestored` | the backup made before a restore prunes the one to be restored |
| `Clipper!PreRollIsKept` | with `PreRoll = 2`: settings.py:22-26 bounds the pre-roll by the ring alone, but the ring turns on while the post-roll is waited for |
| `Enrollment!OnlyWholePhotosAreEmbedded` | the sweep at a start takes a temporary file for a photo |

Seen while modelling and present in the models as the code has them, without a
run: the queue files of button.py:56 and notification_queue.py:102 are rewritten
in place, so a crash during a save loses them (`Torn`); the back-off counts from
the start of the round (notification_queue.py:212), so waits are shorter than
the docstring's table after slow sends; the buffer's worker dispatches under the
lock (recognition_buffer.py:164), so a recognition in time can come too late;
try_demote_admin refuses a disabled admin while one active admin is left
(auth.py:292-299 against 280-281); a crash between main.py:162 and 164 leaves an
empty bootstrap token for good; a press updates last_seen_at (doorbell.py:287
against auth.py:565-566); pairing again clears last_seen_at, which the watchdog
reports as silence (auth.py:549); a reload in which a camera could not be restarted for new
global classes raises KeyError at main.py:769 and leaves the rest undone, where
config_watcher.py:76 logs "keeping previous config" (`UpdateRaises`;
`CompleteReload` is about reloads that do not raise); a save between
`load_config` and the construction of the watcher is never loaded
(`WatcherStarts`, config_watcher.py:37, against docs/QUICKSTART.md:139-140,
"Save → the detector and notifier hot-reload"); a thread that outlives its join
makes a health entry for a camera that was removed; clearing both Tuya credentials
in the form never removes them, the branch for it (routes/deterrent.py:145-147) being
out of reach while an empty field keeps the old value (136-137).

## 4. Fairness

* `FairLock`: a waiter whose event is set or whose time is up runs on, and the
  owner finishes its inference. Python threads are scheduled preemptively;
  `predict` releases in a `finally`. Nobody has to ask for the lock.
* `PressDelivery`: the Pi's threads and the host's handlers run on, the retry
  thread comes back every 30 s, systemd and Docker restart what stopped. Nobody
  has to press or pair.
* `NotificationQueue`: dispatching threads and the worker run on, Docker
  restarts the notifier, time passes. `QueueDrains` holds only for behaviours in
  which the channel stays configured.
* `RecognitionBuffer`: the worker and time go on; the loop, which competes with
  the worker for one lock, needs strong fairness, the lock being free again and
  again between rounds.
* `DoorbellDevices`: only the watchdog's thread is fair; no device is.
* `LoginLockout`: only time.
* `CameraLifecycle`: the thread that starts and stops cameras runs on, since all
  its waits have time-outs. Nobody has to save, report or restore.
* `CameraHealth`: the camera's thread, the collector and time go on. A camera need
  not come back.
* `Rearm`: the scheduler's thread wakes every thirty seconds. Nobody has to click.
* `RateLimit`: time passes and calls to Redis return.

The other modules claim safety only, and have no fairness.

## 5. Proofs

`FairLockProofs`, for every set of threads: type correctness, mutual exclusion,
`HeldIffOwned`, `QueueIsExactlyTheWaiters`, `NoOvertaking` and the refinement of
`FifoMutex`. Exclusion is not inductive: that the flag is set exactly when a
thread owns the lock or has been handed it, and that the queue holds exactly the
waiters not yet signalled, once each, is what makes a hand-over to the head
safe, and `IInv` is their conjunction with the types. The refinement reads the
abstract queue from the concrete one and the threads handed the lock; a `Wake`
is the abstract grant or a stutter. `LockHoldsAlways` collects the invariants
into `LockHolds`, which the run `waiting` checks.

`AccountsProofs`, for every set of requests and all bounds: type correctness,
`CredentialsHaveOwners`, `ClaimedOnce`, `AdminRemains`, and, when authentication
is never switched off, `AlwaysAdministered`. `IInv` adds that ids are never used
twice (`DOMAIN users \subseteq 1 .. lastUser`), that a remembered caller is
known, and that a claim in progress excludes users. Lemmas per table summarise
what one step can do to the users and to the credentials, and the invariants
follow from the summaries.

`CameraLifecycleProofs`, for every finite set of cameras, every set of models and
of configurations: type correctness, `PoolCountsCameras`, `CompleteReload` and
`StoppedIsForgotten`. None is inductive alone. `Loops` adds what each loop of
start-up and reload knows of the names it still has to visit: whom it starts is
not running, whom it stops is, and a removed camera runs until its loop comes.
`Progress` adds what is already settled: the enabled cameras the loop is through
with run as the file says or were skipped, and what should not run is still to be
visited. The counts follow from two lemmas on starting and stopping one camera. `LifecycleHoldsAlways`
collects the three and the types into `LifecycleHolds`, which the run `cameras` checks.

The same module has `ScheduleIsKept`, for every schedule whose boundaries have one
date in local time and in UTC, every length of day and time between two looks.
That `TransitionsBetween` returns the transitions of the interval, in order and none
twice, is shown by itself from the community module's definition of the sorted
sequence; the invariant then only remembers that the window is that of the last
look (`ScheduleInv`). And it has `HealthIsCorrect`: `OutageInv` says from when an
outage counts, that a recovery being told is of a camera whose frames have not
stopped for long enough, and that an outage is told once.

`WaitingProofs` has the rest of the run `waiting`.

* `BufferIsCorrect`, `TimeoutIsNeverEarly`, `BufferRefines`, for every set of events
  and tokens and every wait: `BufferInv` says that the token of the table leads to an
  entry of the heap, that worker and loop have different events in hand, that what
  is held was neither dispatched nor replaced, and that what was found expired
  stays so. Each step of the buffer is then one of `Coalescing` or a stutter.
* `DoorbellIsCorrect`, for any presses, queue size, attempts and devices. `PressInv`
  follows a press through queue, file, thread and request: each press pushed is on
  the Pi, published or given up; a thread has only a press in hand whose turn it
  is, the older ones having their row or being given up; a request is of the press
  its thread waits for. `RecordIsWhatWasTold` is inductive with its types.
* `RearmIsKept`: what was shown has its key, or the scheduler is about to act on it.
* `LimitsAreKept`: for the lockout, what is recorded is what was compared, and the
  sum over the window splits at its end. For the rate limit, a window's length has
  seen at most one key before this one, and since EXPIRE this key alone
  (`WindowsApart`); one request only is between INCR and EXPIRE.

`NotificationQueueProofs`, for any notes, channels, waits, queue size and crashes:
`QueueInv` says that no list has a note twice, that a dispatching thread's note is in
none of them, that what a round is done with was delivered or given up, and that
without a crash nothing that is still to be sent has arrived. Then no note is lost
without a reason (`NotificationsAreCorrect`) and nothing expired returns
(`RestartsDiscardExpired`). The lemmas on `Selected` need the induction below.

`EvidenceProofs` has the run `evidence`, for any events, threads, workers, ring and faces.

* `RetentionIsCorrect`: a path without a file is one the cleaner is about to clear, or
  could not; it takes no clip whose label it has seen.
* `EnrollmentIsCorrect`: every photo of a known face is embedded, or something still
  leads the recognizer to it (upload, announcement, sweep), or a fault is recorded.
* `RecognitionIsCorrect`: a job is in the queue once, the slots taken are the jobs
  running, and what a match may name was enrolled since the delivery arrived.
* `ClipsAreCorrect`: `RingInv` says that each segment of ffmpeg's present run is in
  the ring for a turn of it; from this a cut in time is complete, and `PoolInv`
  carries it through the worker's sleep, write and row.
* `DetectionsAreCorrect`: what a thread has still to publish is its own, rising, and
  not before anything of it on the channel; what went out twice is counted by the
  lost replies (`PublicationInv`). No event is in two visits, and while the tracker
  is told in order the visits are apart (`VisitInv`).

`ConfigurationProofs` has the run `configuration`, each module for any constants.

* `DeterrentIsCorrect`, `ArmFileIsCorrect`, `StoreIsCorrect`, `SecretsAreSafe`,
  `FormIsCorrect`, with the action properties `OnlyRacesUndoHolds` and
  `FormKeepsTheRestHolds`. The strengthenings say of what was read earlier that it is
  still what the file says, or that this is known to have changed (`UpToDate`,
  `ArmingIsRead`, `CacheAgrees`, `BackupsAgree`, `OneKey`).
* `AlertsGoWhereMeant`: every copy in force while an alert is under way is among
  `since`, and one file of `since` each explains what the rules, the face rules and
  the channels made of it (`RoutingInv`). While nobody saves there is only one.
* `DigestIsSentOnce`: no report is dispatched for a date after the latest, what is at
  hand is later than what was sent, and a due instant's tick left a report (`DigestInv`).
* `ReportIsTrue`: each number lies between the rows that were settled when the
  period ended and those with the second's own added; sums over classes are sums of
  disjoint sets of rows. The proof is why the model rounds as the code does and why
  the claims name the retention: with the floor, or without the condition, it fails.
* `ClassesAreOfTheFile`: an entry is not behind its stamp, and a request's file is the
  one its page had read or a later one (`ClassesInv`).
* `EvaluationIsFair`: requests wait in the order of their runs, the result is as new as
  what is said to be over, and both models have run on each loaded image (`EvaluationInv`).

**Induction.** The library's induction theorems take an operator as a parameter, which the
provers cannot instantiate. `NatSetInduction` of `SeqLemmas` codes the predicate as a set: a
set of naturals that has 0 and with n also n + 1 is Nat, since its complement would
have a least element (`LeastExists`). With it the sums of the community modules, the
enumeration of a finite set of dates and `Selected` can be reasoned about although
each is recursive.

**Assumptions.** The theorems rest on the constants' assumptions alone, each named
in the module that declares the constants (`AccountsAssumption`, `BufferAssumption`,
`RateAssumption`, `ClipperAssumption`, `DigestAssumption`, `RoutingAssumption` and so on):
the types of the bounds, that sets are finite where the code counts them, and the
comparisons the code's own validation makes. TLC evaluates every one in the runs.

**Only model-checked.** Every invariant and every safety action property of the
passing runs is proved. The eight liveness properties are not, liveness and ENABLED
being beyond the prover: `EventuallyServed`, `EventuallyDispatched`,
`EveryPressSettles`, `SilenceIsNoticed`, `TimersEnd`, `QueueDrains`, `SavedIsTaken`,
`DeadCameraIsFound`. So the theorems about `ImplementsFifoMutex` and
`ImplementsCoalescing` are about the safety of the abstract specifications, which
have no fairness. The refutations of section 3 are TLC's.

## 6. What is left out

Of the modelled parts: passwords, CSRF and audit rows (`Accounts`); the cap on
the login_attempts table; the detector's shutdown and a changed rtsp_url, which a
reload does not look at (`CameraLifecycle`); the signature of a published event
(`Detections`); exclusion zones and warnings about unknown names
(`AlertRouting`); the sun's times, which are given times (`ArmSchedule`); the
service that actuates a deterrent, which the repository does not contain; the
database backups and the diff (`ConfigStore`); ranges of single fields
(`ConfigForm`); storage figures and formatting (`DigestReport`); the geometry of
boxes (`Evaluation`) and of embeddings (`Recognizer`), which are choices;
message texts; columns no property reads. The cipher is the key a value is
sealed with.

Not modelled at all: snapshot requests (a request and answer of the shape
of `ModelClasses`, without a cache), notification channels (formatting and
network I/O), the audit log (append-only rows), and the shared helpers (signing
and URL checks, functions over bytes).

Several pairs of modules are not composed, though their components meet:
`Rearm` and `ArmSchedule` with `ArmFile`, `Detections` with `Clipper` and
`Recognizer`, `RecognitionBuffer` with `NotificationQueue`. Each side lets the
other do whatever it can at any time, which allows more than the composition does.

## 7. Plan

Modelling is complete as far as section 6 says, and the safety properties of the
passing runs are proved. What would say more about the system:

1. Abstract specifications with proved refinements beside `FifoMutex` and
   `Coalescing`: an at-least-once outbox for `PressDelivery` and for
   `NotificationQueue`, each note or press with its fate.
2. Under which conditions the refuted statements do hold (one page per shared key, no
   label after the cleaner's look-up, no channel without notifier), as theorems.
3. The safety part of the liveness properties: in each state a waiter is
   in, the step that serves it is possible or is a finite number of steps away.
4. Shorter proofs: summaries of what a step does to one table, as in
   `AccountsProofs`, instead of a case per action and conjunct.

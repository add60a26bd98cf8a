--------------------------- MODULE CameraLifecycle ---------------------------
(***************************************************************************)
(* The camera threads of the detector and their hot reload: main of        *)
(* services/detector/src/main.py with _start_camera, _stop_camera and      *)
(* _on_config_change, the config watcher of shared/config_watcher.py, the  *)
(* reference counts of model_pool.py and the entries camera_health.py      *)
(* keeps for the cameras that report.                                      *)
(*                                                                         *)
(* One thread at a time starts and stops cameras: main until the watcher   *)
(* exists, the watcher from then on.  Meanwhile the camera threads report, *)
(* the file is saved and restored by other services, and model files come  *)
(* and go.                                                                 *)
(*                                                                         *)
(* Of a camera's section the model keeps its model_path, whether it has    *)
(* detect_classes of its own, and one value for all a reload hands to the  *)
(* running thread (zones, rules, confidence).  The order of the cameras    *)
(* and the shutdown of the service are left out.                           *)
(***************************************************************************)
EXTENDS Naturals, FiniteSets

CONSTANTS
    Cameras,   \* camera names
    Models,    \* model files
    Default,   \* the model_path of a camera that names none
    Off,       \* a camera that is not in the file or not enabled; no thread
    Configs,   \* the configurations that may be in the file
    Torn       \* a file a restore has truncated and not written yet

Classes == {"global", "own"}
Section == [model : Models \cup {Default}, classes : Classes, tuning : Nat]
Config == [model : Models, classes : Nat, cameras : [Cameras -> Section \cup {Off}]]

ASSUME LifecycleAssumption ==
    /\ IsFiniteSet(Cameras)
    /\ Default \notin Models
    /\ Off \notin Cameras /\ Off \notin Section
    /\ Configs \subseteq Config /\ Torn \notin Configs

\* CameraState: what a camera's thread runs with.
Thread == [model : Models, classes : Classes, tuning : Nat]

VARIABLES
    file,      \* openring.yml: a configuration, or Torn
    changed,   \* its mtime is not the one the watcher remembers
    onDisk,    \* models whose file exists and loads
    loaded,    \* the configuration of the last reload, and the pool's defaults
    reload,    \* where main or the watcher is
    active,    \* active_cameras
    refs,      \* ModelPool._refcounts, 0 for a model that is not loaded
    tracked,   \* cameras with an entry in CameraHealthTracker._cameras
    outlived   \* cameras one of whose threads was still running after its join

vars == <<file, changed, onDisk, loaded, reload, active, refs, tracked, outlived>>

fileVars == <<file, changed>>
threadVars == <<active, refs>>
healthVars == <<tracked, outlived>>

Phases == {"classes", "cameras", "removed"}
Reload ==
    [at : {"starting", "idle", "loading", "stopping", "stopped", "restart"} \cup Phases,
     old : SUBSET Cameras,              \* old_camera_names
     todo : SUBSET Cameras,             \* what is left of the phase's loop
     camera : Cameras \cup {Off},       \* the camera being stopped,
     state : Thread \cup {Off},         \*   its CameraState,
     back : Phases,                     \*   and the loop it is stopped in
     missed : SUBSET Cameras,           \* cameras _start_camera has skipped
     raised : BOOLEAN]                  \* the reload ended with an exception

TypeOK ==
    /\ file \in Configs \cup {Torn} /\ changed \in BOOLEAN
    /\ onDisk \subseteq Models /\ loaded \in Configs
    /\ reload \in Reload
    /\ reload.camera # Off <=> reload.at \in {"stopping", "stopped", "restart"}
    /\ reload.state # Off <=> reload.at \in {"stopping", "stopped"}
    /\ active \in [Cameras -> Thread \cup {Off}]
    /\ refs \in [Models -> Nat]
    /\ tracked \subseteq Cameras /\ outlived \subseteq Cameras

-----------------------------------------------------------------------------
Active == {c \in Cameras : active[c] # Off}
Enabled(cfg) == {c \in Cameras : cfg.cameras[c] # Off}

\* The model and classes a camera's section comes to under a default model.
Resolve(section, default) ==
    [section EXCEPT !.model = IF @ = Default THEN default ELSE @]
Wanted(c) == Resolve(loaded.cameras[c], loaded.model)

\* main has read the file and starts its cameras; without one it exits.
Init ==
    /\ file \in {cfg \in Configs : Enabled(cfg) # {}} /\ changed = FALSE
    /\ loaded = file
    /\ onDisk \in SUBSET Models
    /\ active = [c \in Cameras |-> Off]
    /\ refs = [m \in Models |-> 0]
    /\ tracked = {} /\ outlived = {}
    /\ reload = [at |-> "starting", old |-> {}, todo |-> Enabled(file), camera |-> Off,
                 state |-> Off, back |-> "cameras", missed |-> {}, raised |-> FALSE]

-----------------------------------------------------------------------------
\* ModelPool.get_detector, which loads a model nobody counts on yet.
More(model) == [refs EXCEPT ![model] = @ + 1]

\* _start_camera under the settings of the reload, then on in the loop at `next`.
StartCamera(c, next) ==
    /\ IF Wanted(c).model \in onDisk
          THEN /\ active' = [active EXCEPT ![c] = Wanted(c)]
               /\ refs' = More(Wanted(c).model)
               /\ reload' = [next EXCEPT !.missed = @ \ {c}]
          ELSE /\ reload' = [next EXCEPT !.missed = @ \cup {c}]
               /\ UNCHANGED threadVars
    /\ UNCHANGED <<fileVars, onDisk, loaded, healthVars>>

\* main's loop over the cameras, and the cameras a reload adds.
AddCamera(c) ==
    /\ reload.at \in {"starting", "cameras"}
    /\ c \in reload.todo \ reload.old
    /\ StartCamera(c, [reload EXCEPT !.todo = @ \ {c}])

\* The cameras run, the rest of main too: ConfigWatcher() notes the file's mtime.
WatcherStarts ==
    /\ reload.at = "starting" /\ reload.todo = {}
    /\ reload' = [reload EXCEPT !.at = "idle"]
    /\ changed' = FALSE
    /\ UNCHANGED <<file, onDisk, loaded, threadVars, healthVars>>

-----------------------------------------------------------------------------
\* The watcher sees another mtime and remembers it before it opens the file.
Poll ==
    /\ reload.at = "idle" /\ changed
    /\ changed' = FALSE
    /\ reload' = [reload EXCEPT !.at = "loading"]
    /\ UNCHANGED <<file, onDisk, loaded, threadVars, healthVars>>

LoadTorn ==
    /\ reload.at = "loading" /\ file = Torn
    /\ reload' = [reload EXCEPT !.at = "idle"]
    /\ UNCHANGED <<fileVars, onDisk, loaded, threadVars, healthVars>>

\* _on_config_change up to its first loop: the pool takes the new defaults, and
\* the running cameras without classes of their own are due if those changed.
Load ==
    /\ reload.at = "loading" /\ file # Torn
    /\ loaded' = file
    /\ reload' = [reload EXCEPT !.at = "classes", !.old = Active, !.missed = {}, !.raised = FALSE,
                                !.todo = {c \in Active \cap Enabled(file) :
                                             /\ active[c].classes = "global"
                                             /\ file.classes # loaded.classes}]
    /\ UNCHANGED <<fileVars, onDisk, threadVars, healthVars>>

\* The next loop of the reload, once the loop it is in has run out.
NextLoop(from, to, cameras) ==
    /\ reload.at = from /\ reload.todo = {}
    /\ reload' = [reload EXCEPT !.at = to, !.todo = cameras]
    /\ UNCHANGED <<fileVars, onDisk, loaded, threadVars, healthVars>>

ClassesDone == NextLoop("classes", "cameras", Enabled(loaded))
CamerasDone == NextLoop("cameras", "removed", reload.old \ Enabled(loaded))

\* Mutant: the file's mtime is remembered when the reload is over.
ReloadDoneRemembers ==
    /\ reload.at = "removed" /\ reload.todo = {}
    /\ reload' = [reload EXCEPT !.at = "idle"]
    /\ changed' = FALSE
    /\ UNCHANGED <<file, onDisk, loaded, threadVars, healthVars>>
ReloadDone == NextLoop("removed", "idle", {})

\* _stop_camera takes the camera off active_cameras and sets its stop event.
StopCamera(c) ==
    /\ reload' = [reload EXCEPT !.at = "stopping", !.camera = c, !.state = active[c],
                                !.back = reload.at, !.todo = @ \ {c}]
    /\ active' = [active EXCEPT ![c] = Off]
    /\ UNCHANGED <<fileVars, onDisk, loaded, refs, healthVars>>

RestartForClasses(c) ==
    /\ reload.at = "classes" /\ c \in reload.todo
    /\ StopCamera(c)

\* Mutant: the classes of a camera are not compared.
SameModel(state, wanted) == state.model = wanted.model

\* Whether a running camera can take its new section without a restart.
SameDetector(state, wanted) ==
    /\ state.model = wanted.model
    /\ state.classes = wanted.classes

\* A camera of the old set in the loop over the new list.
UpdateCamera(c) ==
    /\ reload.at = "cameras"
    /\ c \in reload.todo \cap reload.old \cap Active
    /\ \/ /\ ~ SameDetector(active[c], Wanted(c))
          /\ StopCamera(c)
       \/ /\ SameDetector(active[c], Wanted(c))
          /\ active' = [active EXCEPT ![c].tuning = loaded.cameras[c].tuning]
          /\ reload' = [reload EXCEPT !.todo = @ \ {c}]
          /\ UNCHANGED <<fileVars, onDisk, loaded, refs, healthVars>>

\* active_cameras[cam_name] of a camera that did not come back in the loop before
\* raises KeyError: the watcher logs it and the rest of the reload does not happen.
UpdateRaises(c) ==
    /\ reload.at = "cameras"
    /\ c \in (reload.todo \cap reload.old) \ Active
    /\ reload' = [reload EXCEPT !.at = "idle", !.todo = {}, !.raised = TRUE]
    /\ UNCHANGED <<fileVars, onDisk, loaded, threadVars, healthVars>>

RemoveCamera(c) ==
    /\ reload.at = "removed" /\ c \in reload.todo
    /\ StopCamera(c)

\* thread.join(timeout=5): the thread ends in time, or sits in a read or an
\* inference and goes on behind the watcher's back.
JoinEnds ==
    /\ reload.at = "stopping"
    /\ reload' = [reload EXCEPT !.at = "stopped"]
    /\ UNCHANGED <<fileVars, onDisk, loaded, threadVars, healthVars>>

JoinTimesOut ==
    /\ reload.at = "stopping"
    /\ reload' = [reload EXCEPT !.at = "stopped"]
    /\ outlived' = outlived \cup {reload.camera}
    /\ UNCHANGED <<fileVars, onDisk, loaded, threadVars, tracked>>

\* Mutant: a camera's model is released twice, below zero.
FewerByTwo(model) == [refs EXCEPT ![model] = @ - 2]

\* ModelPool.release, which unloads a model nobody counts on any more.
Fewer(model) == [refs EXCEPT ![model] = IF @ = 0 THEN 0 ELSE @ - 1]

\* The end of _stop_camera: ModelPool.release and remove_camera.
GivesUp(counts, entries) ==
    /\ reload.at = "stopped"
    /\ refs' = counts
    /\ tracked' = entries
    /\ reload' = IF reload.back = "removed"
                    THEN [reload EXCEPT !.at = "removed", !.camera = Off, !.state = Off]
                    ELSE [reload EXCEPT !.at = "restart", !.state = Off]
    /\ UNCHANGED <<fileVars, onDisk, loaded, active, outlived>>

\* Mutants: the default model is released; the health entry stays.
ReleaseDefault == GivesUp(Fewer(loaded.model), tracked \ {reload.camera})
ReleaseKeepsEntry == GivesUp(Fewer(reload.state.model), tracked)

Release == GivesUp(Fewer(reload.state.model), tracked \ {reload.camera})

Restart ==
    /\ reload.at = "restart"
    /\ StartCamera(reload.camera, [reload EXCEPT !.at = reload.back, !.camera = Off])

-----------------------------------------------------------------------------
\* A thread's record_frame or record_failure makes an entry where there is none:
\* a running thread's, one being joined, or one that has outlived its join.
Report(c) ==
    /\ \/ c \in Active
       \/ reload.at = "stopping" /\ reload.camera = c
       \/ c \in outlived
    /\ tracked' = tracked \cup {c}
    /\ UNCHANGED <<fileVars, onDisk, loaded, reload, threadVars, outlived>>

\* The web service or the scheduler replaces the file, or a restore is through.
Save(cfg) ==
    /\ file' = cfg /\ changed' = TRUE
    /\ UNCHANGED <<onDisk, loaded, reload, threadVars, healthVars>>

\* ConfigBackupManager.restore copies a backup over the file in place.
RestoreTruncates ==
    /\ file' = Torn /\ changed' = TRUE
    /\ UNCHANGED <<onDisk, loaded, reload, threadVars, healthVars>>

\* Models are uploaded, exported and deleted.
ModelsChange ==
    /\ onDisk' \in SUBSET Models
    /\ UNCHANGED <<fileVars, loaded, reload, threadVars, healthVars>>

-----------------------------------------------------------------------------
\* What the thread that starts and stops cameras does.
Step ==
    \/ WatcherStarts \/ Poll \/ LoadTorn \/ Load
    \/ ClassesDone \/ CamerasDone \/ ReloadDone
    \/ JoinEnds \/ JoinTimesOut \/ Release \/ Restart
    \/ \E c \in Cameras :
          \/ AddCamera(c) \/ RestartForClasses(c) \/ UpdateCamera(c) \/ UpdateRaises(c)
          \/ RemoveCamera(c)

Next ==
    \/ Step
    \/ \E c \in Cameras : Report(c)
    \/ \E cfg \in Configs : Save(cfg)
    \/ RestoreTruncates
    \/ ModelsChange

Spec == Init /\ [][Next]_vars

\* main and the watcher keep running: every wait of theirs has a timeout.
FairSpec == Spec /\ WF_vars(Step)

-----------------------------------------------------------------------------
\* The pool's count of a model is the number of cameras that run it, the one
\* being stopped included: a model is never unloaded under a camera nor kept
\* loaded for none, whatever the defaults become in between (model_pool.py:3-4).
PoolCountsCameras ==
    \A m \in Models :
        refs[m] = Cardinality({c \in Active : active[c].model = m})
                  + IF reload.state # Off /\ reload.state.model = m THEN 1 ELSE 0

\* A reload that did not raise leaves exactly the enabled cameras running, each
\* with the model, classes and tuning of the file it read, but for those whose
\* model it could not start (main.py:702-818).
CompleteReload ==
    reload.at \in {"idle", "loading"} /\ ~ reload.raised
        => active = [c \in Cameras |-> IF c \in Enabled(loaded) \ reload.missed
                                          THEN Wanted(c) ELSE Off]

\* A camera that is not running has no health entry, which would go offline and
\* page its owner, unless a thread of it outlived its join (camera_health.py:191).
StoppedIsForgotten ==
    tracked \subseteq Active \cup outlived
                      \cup IF reload.state # Off THEN {reload.camera} ELSE {}

\* With the watcher up, a configuration that is saved and stays is taken: no save
\* slips in between the mtime the watcher remembers and the file it reads.
SavedIsTaken ==
    \A cfg \in Configs :
        (file = cfg /\ changed /\ reload.at # "starting") ~> (loaded = cfg \/ file # cfg)

\* Reloads, removals and joins that time out leave the cameras, the pool's
\* counts and the health monitor in agreement.
LifecycleHolds == TypeOK /\ PoolCountsCameras /\ CompleteReload /\ StoppedIsForgotten
=============================================================================

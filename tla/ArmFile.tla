------------------------------- MODULE ArmFile -------------------------------
(***************************************************************************)
(* The armed flag and its file.  Two processes rewrite openring.yml: the   *)
(* web service (arm, disarm and the deterrent switch of                    *)
(* routes/dashboard.py, the form of routes/config.py, each through         *)
(* config_store.py) and the detector (the scheduler thread of scheduler.py *)
(* through _write_armed_to_config of main.py).  The detector's watcher     *)
(* thread brings the file back to armed_ref, the flag the cameras obey.    *)
(*                                                                         *)
(* The web service runs one handler at a time from await to await, so its  *)
(* load and its save of the file have only the detector between them.      *)
(* When the scheduler arms is ArmSchedule's and Rearm's: here it may at    *)
(* any time.                                                               *)
(***************************************************************************)
EXTENDS Integers, Sequences, FiniteSets

VARIABLES
    file,     \* openring.yml: system.armed, and deterrent.enabled for the rest
    changed,  \* its mtime is not the one the watcher remembers
    page,     \* the configuration form open in a browser
    web,      \* the handler between its load and its save
    armedRef, \* armed_ref
    thread,   \* the scheduler's thread, between armed_ref and the file
    watcher,  \* the watcher's thread
    unsaved   \* history: the detector could not write the flag it obeys

fileVars == <<file, changed, page, web, armedRef, thread, watcher, unsaved>>
webVars == <<page, web>>

Settings == {"armed", "deterrent"}
File == [Settings -> BOOLEAN]

\* Somebody who is going to save `copy`, to set `means`; stale if the file has
\* been replaced since it was read.
Holding(copy, means, stale) ==
    [at |-> "saving", copy |-> copy, means |-> means, stale |-> stale]
NoCopy == Holding([s \in Settings |-> FALSE], {}, FALSE)
Idle == [NoCopy EXCEPT !.at = "idle"]
Watching == [at |-> "waiting", armed |-> FALSE]

ArmFileTypeOK ==
    /\ file \in File /\ changed \in BOOLEAN /\ armedRef \in BOOLEAN /\ unsaved \in BOOLEAN
    /\ {page, web, thread} \subseteq
           [at : {"idle", "loading", "saving"}, copy : File, means : SUBSET Settings, stale : BOOLEAN]
    /\ web.at # "loading" /\ thread.means \subseteq {"armed"}
    /\ watcher \in [at : {"waiting", "loading", "arming"}, armed : BOOLEAN]

-----------------------------------------------------------------------------
\* The detector starts with what the file says.
ArmFileInit ==
    /\ file \in File /\ changed = FALSE
    /\ page = Idle /\ web = Idle /\ thread = Idle
    /\ armedRef = file["armed"]
    /\ watcher = Watching /\ unsaved = FALSE

-----------------------------------------------------------------------------
(* The web service.                                                        *)

\* Mutant: the section of the setting is written anew.
WithAlone(old, setting, on) == [s \in Settings |-> s = setting /\ on]

\* What set_armed, set_deterrent_enabled and _write_armed_to_config make of the
\* file they load.
With(old, setting, on) == [old EXCEPT ![setting] = on]

\* arm, disarm, deterrent_enable and deterrent_disable.
WebLoads(setting, on) ==
    /\ web.at = "idle"
    /\ web' = Holding(With(file, setting, on), {setting}, FALSE)
    /\ UNCHANGED <<file, changed, page, armedRef, thread, watcher, unsaved>>

\* config_page: the form shows what the file holds now.
OpenForm ==
    /\ page.at = "idle" /\ web.at = "idle"
    /\ page' = Holding(file, {}, FALSE)
    /\ UNCHANGED <<file, changed, web, armedRef, thread, watcher, unsaved>>

\* save_structured_config with one setting edited.  The form sends every setting,
\* `armed` included, and what it sends wins over what the file says by now.
SubmitForm(setting) ==
    /\ page.at = "saving" /\ web.at = "idle"
    /\ web' = Holding([page.copy EXCEPT ![setting] = ~@], {setting}, page.stale)
    /\ page' = Idle
    /\ UNCHANGED <<file, changed, armedRef, thread, watcher, unsaved>>

Outdated(holder) == [holder EXCEPT !.stale = holder.at = "saving"]

\* config_store.save replaces the file.
WebSaves ==
    /\ web.at = "saving"
    /\ file' = web.copy /\ changed' = TRUE
    /\ page' = Outdated(page) /\ thread' = Outdated(thread)
    /\ web' = Idle
    /\ UNCHANGED <<armedRef, watcher, unsaved>>

WebFileCrash ==
    /\ web.at = "saving"
    /\ web' = Idle
    /\ UNCHANGED <<file, changed, page, armedRef, thread, watcher, unsaved>>

-----------------------------------------------------------------------------
(* The scheduler's thread.                                                 *)

\* A boundary, or a re-arm: armed_ref.set, and into _on_scheduler_transition.
Transition(armed) ==
    /\ thread.at = "idle"
    /\ armedRef' = armed
    /\ thread' = [Idle EXCEPT !.at = "loading", !.means = {"armed"}, !.copy["armed"] = armed]
    /\ UNCHANGED <<file, changed, webVars, watcher, unsaved>>

\* _write_armed_to_config
Load ==
    /\ thread.at = "loading"
    /\ thread' = Holding(With(file, "armed", thread.copy["armed"]), {"armed"}, FALSE)
    /\ UNCHANGED <<file, changed, webVars, armedRef, watcher, unsaved>>

Replace ==
    /\ thread.at = "saving"
    /\ file' = thread.copy /\ changed' = TRUE
    /\ page' = Outdated(page) /\ web' = Outdated(web)
    /\ thread' = Idle
    /\ UNCHANGED <<armedRef, watcher, unsaved>>

\* The file cannot be read or written: logged.
WriteFails ==
    /\ thread.at # "idle"
    /\ thread' = Idle
    /\ unsaved' = TRUE
    /\ UNCHANGED <<file, changed, webVars, armedRef, watcher>>

-----------------------------------------------------------------------------
(* The watcher's thread, and _on_config_change as far as arming goes.      *)

\* _watch_loop sees another modification time and remembers it before it reloads.
Poll ==
    /\ watcher.at = "waiting" /\ changed
    /\ changed' = FALSE
    /\ watcher' = [watcher EXCEPT !.at = "loading"]
    /\ UNCHANGED <<file, webVars, armedRef, thread, unsaved>>
WatcherLoads ==
    /\ watcher.at = "loading"
    /\ watcher' = [at |-> "arming", armed |-> file["armed"]]
    /\ UNCHANGED <<file, changed, webVars, armedRef, thread, unsaved>>

\* Mutant: the modification time is read again when the reload is done.
ReloadArmedRemembers ==
    /\ watcher.at = "arming"
    /\ armedRef' = watcher.armed
    /\ unsaved' = FALSE /\ changed' = FALSE
    /\ watcher' = Watching
    /\ UNCHANGED <<file, webVars, thread>>

ReloadArmed ==
    /\ watcher.at = "arming"
    /\ armedRef' = watcher.armed
    /\ unsaved' = FALSE
    /\ watcher' = Watching
    /\ UNCHANGED <<file, changed, webVars, thread>>

\* The detector dies, at any point, and starts again from the file.
DetectorRestarts ==
    /\ armedRef' = file["armed"]
    /\ changed' = FALSE /\ unsaved' = FALSE
    /\ thread' = Idle /\ watcher' = Watching
    /\ UNCHANGED <<file, webVars>>

ArmFileNext ==
    \/ \E s \in Settings, on \in BOOLEAN : WebLoads(s, on)
    \/ OpenForm \/ (\E s \in Settings : SubmitForm(s)) \/ WebSaves \/ WebFileCrash
    \/ (\E armed \in BOOLEAN : Transition(armed)) \/ Load \/ Replace \/ WriteFails
    \/ Poll \/ WatcherLoads \/ ReloadArmed \/ DetectorRestarts

ArmFileSpec == ArmFileInit /\ [][ArmFileNext]_fileVars

-----------------------------------------------------------------------------
\* At rest the cameras obey what the file says: the watcher misses no save, and a
\* reload undoes none of the scheduler's.  It excepts a flag the detector could
\* not write, until the next reload.
DetectorFollowsFile ==
    watcher.at = "waiting" /\ ~changed /\ thread.at = "idle" /\ ~unsaved
        => armedRef = file["armed"]

\* The flag the cameras read and the file agree, whoever has written it.
ArmFileHolds == ArmFileTypeOK /\ DetectorFollowsFile

\* A save changes a setting it is not about only if the file was replaced after
\* its writer had read it (a form: after it was shown).
OnlyRacesUndo ==
    [][\A s \in Settings : file'[s] # file[s] =>
           \/ web.at = "saving" /\ web' = Idle /\ (web.stale \/ s \in web.means)
           \/ thread.at = "saving" /\ thread' = Idle /\ (thread.stale \/ s \in thread.means)]_fileVars
=============================================================================

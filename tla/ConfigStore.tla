----------------------------- MODULE ConfigStore -----------------------------
(***************************************************************************)
(* openring.yml as the web service keeps it: the cache and the encryption  *)
(* of config_store.py, and the backups of config_backup.py.                *)
(*                                                                         *)
(* The handlers that save (the forms of routes/config.py and               *)
(* routes/deterrent.py, the buttons of the dashboard, the migrations of a  *)
(* start) run one at a time; the backup thread and the other services that *)
(* replace the file run beside them.  A file is the time it was written,   *)
(* which stands for what it says, and whether its secrets are encrypted.   *)
(***************************************************************************)
EXTENDS Integers, Sequences

CONSTANTS
    MaxBackups,   \* MAX_BACKUPS
    MaxWrites     \* bound: the file is written this often

ASSUME ConfigAssumption == MaxBackups \in Nat /\ MaxWrites \in Nat

VARIABLES
    config,     \* openring.yml
    writes,     \* the time of the last write
    cache,      \* _cache_cfg, _cache_mtime_ns and whether the TTL has not passed
    saving,     \* a save is between os.replace and its look at the new file's time
    backups,    \* BACKUP_DIR, oldest first
    watch,      \* the thread of ConfigBackupManager
    \* Histories.
    overtaken,  \* the file was replaced between the two steps of the last save
    made,       \* times of the files that were backed up, or there at a start
    failed,     \* times of the files whose backup failed
    refused     \* restoring a listed backup was answered with "Restore failed"

configVars == <<config, writes, cache, saving, backups, watch, overtaken, made, failed, refused>>
storeVars == <<config, writes, cache, saving, overtaken>>
backupVars == <<backups, made, failed, refused>>

ConfigFile == [mtime : 0 .. MaxWrites, secrets : {"plain", "sealed"}]
Polling(last) == [at |-> "polling", last |-> last, seen |-> 0]

ConfigTypeOK ==
    /\ config \in ConfigFile /\ writes \in config.mtime .. MaxWrites
    /\ cache \in [cfg : ConfigFile, mtime : 0 .. MaxWrites, fresh : BOOLEAN]
    /\ {saving, overtaken, refused} \subseteq BOOLEAN
    /\ Len(backups) <= MaxBackups /\ \A i \in DOMAIN backups : backups[i] \in ConfigFile
    /\ watch \in [at : {"polling", "debouncing", "copying", "remembering"},
                  last : 0 .. MaxWrites, seen : 0 .. MaxWrites]
    /\ made \cup failed \subseteq 0 .. MaxWrites

ConfigInit ==
    /\ \E s \in {"plain", "sealed"} : config = [mtime |-> 0, secrets |-> s]
    /\ writes = 0
    /\ cache = [cfg |-> config, mtime |-> 0, fresh |-> FALSE]
    /\ saving = FALSE /\ overtaken = FALSE
    /\ backups = <<>> /\ watch = Polling(0)
    /\ made = {0} /\ failed = {} /\ refused = FALSE

-----------------------------------------------------------------------------
(* config_store.py                                                         *)

\* _read_unlocked decrypts the secrets; save encrypts them in the very dict that
\* it then caches.
Loaded(f) == [f EXCEPT !.secrets = "plain"]
Sealed(mtime) == [mtime |-> mtime, secrets |-> "sealed"]

\* save up to os.replace.
Save ==
    /\ ~saving /\ writes < MaxWrites
    /\ writes' = writes + 1
    /\ config' = Sealed(writes + 1)
    /\ cache' = [cache EXCEPT !.cfg = config', !.fresh = FALSE]
    /\ saving' = TRUE /\ overtaken' = FALSE
    /\ UNCHANGED <<watch, backupVars>>

\* The end of save: the file's time, which another service's write may have
\* brought.
SaveRemembers ==
    /\ saving
    /\ saving' = FALSE
    /\ cache' = [cache EXCEPT !.mtime = config.mtime, !.fresh = TRUE]
    /\ UNCHANGED <<config, writes, overtaken, watch, backupVars>>

\* Mutant: the TTL alone ends the cache's answers.
CacheHoldsForTtl == cache.fresh

\* load_cached answers from the cache, or else from the file.
CacheHolds == cache.fresh /\ cache.mtime = config.mtime
CachedAnswer == IF CacheHolds THEN cache.cfg ELSE Loaded(config)
LoadCached ==
    /\ ~saving /\ ~CacheHolds
    /\ cache' = [cfg |-> Loaded(config), mtime |-> config.mtime, fresh |-> TRUE]
    /\ overtaken' = FALSE
    /\ UNCHANGED <<config, writes, saving, watch, backupVars>>

\* A second passes.
TtlPasses ==
    /\ ~saving /\ cache.fresh
    /\ cache' = [cache EXCEPT !.fresh = FALSE]
    /\ UNCHANGED <<config, writes, saving, overtaken, watch, backupVars>>

\* The detector, or an editor on the host, replaces the file.
OtherWrites(secrets) ==
    /\ writes < MaxWrites
    /\ writes' = writes + 1
    /\ config' = [mtime |-> writes + 1, secrets |-> secrets]
    /\ overtaken' = (overtaken \/ saving)
    /\ UNCHANGED <<cache, saving, watch, backupVars>>

-----------------------------------------------------------------------------
(* config_backup.py                                                        *)

\* Mutant: a file more than MAX_BACKUPS stays.
BackedUnpruned(f) ==
    LET all == Append(backups, f)
    IN  IF Len(all) > MaxBackups + 1 THEN Tail(all) ELSE all

\* copy2 into BACKUP_DIR, and _prune.
Backed(f) ==
    LET all == Append(backups, f)
    IN  IF Len(all) > MaxBackups THEN Tail(all) ELSE all

\* _create_backup; a failure is logged.
BackUp ==
    \/ backups' = Backed(config) /\ made' = made \cup {config.mtime} /\ UNCHANGED failed
    \/ failed' = failed \cup {config.mtime} /\ UNCHANGED <<backups, made>>

\* create_backup by an admin.
CreateBackup ==
    /\ ~saving
    /\ BackUp
    /\ UNCHANGED <<storeVars, watch, refused>>

\* restore: first a backup of the present file, which may push out the very one
\* asked for; then copy2, which brings the old modification time back.
Restore(i) ==
    /\ ~saving
    /\ made' = made \cup {config.mtime} /\ backups' = Backed(config)
    /\ LET kept == \E j \in DOMAIN backups' : backups'[j] = backups[i] IN
       /\ config' = IF kept THEN backups[i] ELSE config
       /\ refused' = (refused \/ ~kept)
    /\ UNCHANGED <<writes, cache, saving, overtaken, watch, failed>>

\* _watch_loop: a time other than the last, the debounce, the time once more, the
\* backup, and the time read before it is remembered.
WatchPoll ==
    /\ watch.at = "polling" /\ config.mtime # watch.last
    /\ watch' = [watch EXCEPT !.at = "debouncing"]
    /\ UNCHANGED <<storeVars, backupVars>>
Debounced ==
    /\ watch.at = "debouncing"
    /\ watch' = [watch EXCEPT !.at = "copying", !.seen = config.mtime]
    /\ UNCHANGED <<storeVars, backupVars>>
WatchCopies ==
    /\ watch.at = "copying"
    /\ watch' = [watch EXCEPT !.at = "remembering"]
    /\ BackUp
    /\ UNCHANGED <<storeVars, refused>>

\* Mutant: the time is read after the backup.
WatchRemembersNow ==
    /\ watch.at = "remembering"
    /\ watch' = Polling(config.mtime)
    /\ UNCHANGED <<storeVars, backupVars>>

WatchRemembers ==
    /\ watch.at = "remembering"
    /\ watch' = Polling(watch.seen)
    /\ UNCHANGED <<storeVars, backupVars>>

\* The web service dies and starts.  _encrypt_plaintext_secrets loads the file,
\* which decrypts it, finds secrets in the clear and saves; the backup thread takes
\* what is there then as seen.
WebRestarts ==
    /\ writes < MaxWrites
    /\ writes' = writes + 1
    /\ config' = Sealed(writes + 1)
    /\ cache' = [cfg |-> config', mtime |-> config'.mtime, fresh |-> TRUE]
    /\ saving' = FALSE /\ overtaken' = FALSE
    /\ watch' = Polling(config'.mtime)
    /\ made' = made \cup {config'.mtime}
    /\ UNCHANGED <<backups, failed, refused>>

ConfigNext ==
    \/ Save \/ SaveRemembers \/ LoadCached \/ TtlPasses
    \/ \E s \in {"plain", "sealed"} : OtherWrites(s)
    \/ CreateBackup \/ \E i \in DOMAIN backups : Restore(i)
    \/ WatchPoll \/ Debounced \/ WatchCopies \/ WatchRemembers
    \/ WebRestarts

ConfigSpec == ConfigInit /\ [][ConfigNext]_configVars

-----------------------------------------------------------------------------
\* A file the backup thread has come to rest on has a backup, unless making it
\* failed: no save falls between a backup and the time remembered for it, and a
\* restored file, whose time is old, has one already.
SettledIsBackedUp ==
    watch.at = "polling" /\ watch.last = config.mtime => config.mtime \in made \cup failed

\* An answer from the cache is what the file says, unless another service replaced
\* the file within the last save: then it may be old for the TTL.
CacheFollowsFile == CacheHolds /\ ~overtaken => cache.cfg.mtime = config.mtime

\* The file, its backups and the copy in the cache agree, whoever writes it.
StoreHolds == ConfigTypeOK /\ SettledIsBackedUp /\ CacheFollowsFile

\* restore: "Restore a backup to the active config.  Creates a pre-restore backup
\* first."  A backup that is listed can be restored.
\* The code does not keep this; TLC refutes it (README, section 3).
ListedCanBeRestored == ~refused
=============================================================================

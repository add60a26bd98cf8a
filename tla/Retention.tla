----------------------------- MODULE Retention -----------------------------
(***************************************************************************)
(* What is kept and for how long: the rows, snapshots and clips of the     *)
(* events, the cleaner that prunes them (cleanup.py, a thread of the       *)
(* detector, daily and at each start), the labels people put on them in    *)
(* the web service meanwhile (routes/events.py, routes/feedback.py,        *)
(* db.py), and what the pages and the training export count (db.py,        *)
(* routes/training.py).                                                    *)
(***************************************************************************)
EXTENDS Integers, Sequences, FiniteSets

CONSTANTS Detected, Presses, SystemEvents  \* events, by what they are

VARIABLES
    row,        \* detection_events: per event NoRow, or its columns
    clips,      \* the feedback tokens in the clips table
    snapshot,   \* per event, its file in the snapshot directory: none, fresh or old
    clip,       \* the same of its file in the clips directory
    old,        \* the events whose timestamp is before the cutoff
    cleaner,    \* where the cleaner is and what it holds
    torn,       \* history: events with a file gone, and the update about it not made
    unseen,     \* history: events whose label the cleaner could not see
    kept        \* history: events that have been labelled or are the system's

retentionVars == <<row, clips, snapshot, clip, old, cleaner, torn, unseen, kept>>

Recorded == Detected \union Presses \union SystemEvents
NoRow == [here |-> FALSE, path |-> FALSE, bbox |-> FALSE, label |-> "none"]
Labels == {"correct", "false_positive", "wrong_class"}
Ages == {"none", "fresh", "old"}
Asleep == [at |-> "asleep", todo |-> {}, done |-> {}]

RetentionTypeOK ==
    /\ row \in [Recorded -> [here : BOOLEAN, path : BOOLEAN, bbox : BOOLEAN, label : Labels \union {"none"}]]
    /\ {snapshot, clip} \subseteq [Recorded -> Ages]
    /\ clips \subseteq Recorded /\ old \subseteq Recorded
    /\ cleaner.at \in {"asleep", "snapshots", "clips", "looking", "unlinking", "database"}
    /\ cleaner.todo \subseteq Recorded /\ cleaner.done \subseteq Recorded

Rows == {e \in Recorded : row[e].here}
Labelled == {e \in Rows : row[e].label # "none"}

RetentionInit ==
    /\ row = [e \in Recorded |-> NoRow] /\ clips = {}
    /\ snapshot = [e \in Recorded |-> "none"] /\ clip = [e \in Recorded |-> "none"]
    /\ old = {} /\ cleaner = Asleep
    /\ torn = {} /\ unseen = {} /\ kept = {}

-----------------------------------------------------------------------------
(* The detector, the web service and the clipper record events.            *)

\* EventProcessor.process: a detection has its box, and a snapshot if it could be
\* saved.  insert_doorbell_event: a press has no box.  log_system_event: neither.
Record(e, path) ==
    /\ ~row[e].here /\ e \notin old /\ e \notin kept
    /\ path => e \notin SystemEvents
    /\ row' = [row EXCEPT ![e] = [here |-> TRUE, path |-> path, bbox |-> e \in Detected, label |-> "none"]]
    /\ snapshot' = [snapshot EXCEPT ![e] = IF path THEN "fresh" ELSE "none"]
    /\ kept' = IF e \in SystemEvents THEN kept \union {e} ELSE kept
    /\ UNCHANGED <<clips, clip, old, cleaner, torn, unseen>>

\* The clipper's file and its row, a post-roll after the event.
WriteEventClip(e) ==
    /\ row[e].here /\ e \notin SystemEvents /\ e \notin clips /\ e \notin old
    /\ clip' = [clip EXCEPT ![e] = "fresh"]
    /\ clips' = clips \union {e}
    /\ UNCHANGED <<row, snapshot, old, cleaner, torn, unseen, kept>>

\* Days pass for an event: its row first, then its files.
RowAges(e) ==
    /\ row[e].here /\ e \notin old
    /\ old' = old \union {e}
    /\ UNCHANGED <<row, clips, snapshot, clip, cleaner, torn, unseen, kept>>
FilesAge(e) ==
    /\ e \in old /\ "fresh" \in {snapshot[e], clip[e]}
    /\ snapshot' = [snapshot EXCEPT ![e] = IF @ = "fresh" THEN "old" ELSE @]
    /\ clip' = [clip EXCEPT ![e] = IF @ = "fresh" THEN "old" ELSE @]
    /\ UNCHANGED <<row, clips, old, cleaner, torn, unseen, kept>>

\* submit_feedback and the link in a notification, which expires with age;
\* update_feedback checks nothing of the row but its id.
Label(e, label) ==
    /\ row[e].here
    /\ row' = [row EXCEPT ![e].label = label]
    /\ kept' = kept \union {e}
    /\ unseen' = IF cleaner.at = "unlinking" /\ e \in cleaner.todo \union cleaner.done THEN unseen \union {e} ELSE unseen
    /\ UNCHANGED <<clips, snapshot, clip, old, cleaner, torn>>

-----------------------------------------------------------------------------
(* RetentionCleaner._run                                                   *)

Step(at, todo, done) == cleaner' = [at |-> at, todo |-> todo, done |-> done]

StartRun ==
    /\ cleaner.at = "asleep"
    /\ Step("snapshots", {e \in Recorded : snapshot[e] = "old"}, {})
    /\ UNCHANGED <<row, clips, snapshot, clip, old, torn, unseen, kept>>

\* _prune_snapshots: one file after the other, labelled or not.
UnlinkSnapshot(e) ==
    /\ cleaner.at = "snapshots" /\ e \in cleaner.todo
    /\ snapshot' = [snapshot EXCEPT ![e] = "none"]
    /\ Step("snapshots", cleaner.todo \ {e}, cleaner.done \union {e})
    /\ UNCHANGED <<row, clips, clip, old, torn, unseen, kept>>

\* _clear_db_paths, once for all of them; a failure is logged.
ClearPaths ==
    /\ cleaner.at = "snapshots" /\ cleaner.todo = {}
    /\ \/ row' = [e \in Recorded |-> IF e \in cleaner.done THEN [row[e] EXCEPT !.path = FALSE] ELSE row[e]]
          /\ UNCHANGED torn
       \/ torn' = torn \union cleaner.done /\ UNCHANGED row
    /\ Step("clips", {}, {})
    /\ UNCHANGED <<clips, snapshot, clip, old, unseen, kept>>

\* _prune_clips, 1: the candidates.
EnumerateClips ==
    /\ cleaner.at = "clips"
    /\ Step("looking", {e \in Recorded : clip[e] = "old"}, {})
    /\ UNCHANGED <<row, clips, snapshot, clip, old, torn, unseen, kept>>

\* Mutant: the label is looked up among the rows that have no correction.
LabelledTokensExact(tokens) == {e \in tokens \intersect Labelled : row[e].label = "correct"}

\* _labelled_tokens
LabelledTokens(tokens) == tokens \intersect Labelled

\* 2: those without a label go; all of them, when the look-up fails.
FilterLabelled ==
    /\ cleaner.at = "looking"
    /\ \/ Step("unlinking", cleaner.todo \ LabelledTokens(cleaner.todo), {}) /\ UNCHANGED unseen
       \/ Step("unlinking", cleaner.todo, {}) /\ unseen' = unseen \union LabelledTokens(cleaner.todo)
    /\ UNCHANGED <<row, clips, snapshot, clip, old, torn, kept>>

\* 3: the files, then their rows.
UnlinkClip(e) ==
    /\ cleaner.at = "unlinking" /\ e \in cleaner.todo
    /\ clip' = [clip EXCEPT ![e] = "none"]
    /\ Step("unlinking", cleaner.todo \ {e}, cleaner.done \union {e})
    /\ UNCHANGED <<row, clips, snapshot, old, torn, unseen, kept>>
DeleteClipRows ==
    /\ cleaner.at = "unlinking" /\ cleaner.todo = {}
    /\ \/ clips' = clips \ cleaner.done /\ UNCHANGED torn
       \/ torn' = torn \union cleaner.done /\ UNCHANGED clips
    /\ Step("database", {}, {})
    /\ UNCHANGED <<row, snapshot, clip, old, unseen, kept>>

\* Mutant: the system's events go with the others.
PruneableAll(events) == {e \in events : row[e].label = "none"}

\* What _prune_db deletes of the old rows; count_pruneable_events counts it of all.
Pruneable(events) == {e \in events : row[e].label = "none" /\ e \notin SystemEvents}

\* _prune_db; a failure leaves all of it to the next run.
PruneRows ==
    /\ cleaner.at = "database"
    /\ row' = [e \in Recorded |-> IF e \in Pruneable(old \intersect Rows) THEN NoRow ELSE row[e]]
    /\ cleaner' = Asleep
    /\ UNCHANGED <<clips, snapshot, clip, old, torn, unseen, kept>>

\* The detector dies; a run is made again when it is back.
CleanerDies ==
    /\ cleaner.at # "asleep"
    /\ cleaner' = Asleep
    /\ torn' = torn \union cleaner.done
    /\ UNCHANGED <<row, clips, snapshot, clip, old, unseen, kept>>

RetentionNext ==
    \/ \E e \in Recorded :
           \/ (\E path \in BOOLEAN : Record(e, path)) \/ WriteEventClip(e)
           \/ RowAges(e) \/ FilesAge(e) \/ (\E label \in Labels : Label(e, label))
           \/ UnlinkSnapshot(e) \/ UnlinkClip(e)
    \/ StartRun \/ ClearPaths \/ EnumerateClips \/ FilterLabelled
    \/ DeleteClipRows \/ PruneRows \/ CleanerDies

RetentionSpec == RetentionInit /\ [][RetentionNext]_retentionVars

-----------------------------------------------------------------------------
(* What the pages say.                                                     *)

\* get_events and count_events under their feedback filter.
Listed(filter) ==
    {e \in Rows \ SystemEvents : (filter = "reviewed" => e \in Labelled)
                                  /\ (filter = "unreviewed" => e \notin Labelled)}
\* count_protected_events, and the total_labeled of get_feedback_stats
ProtectedEvents == Labelled
TotalLabelled == Labelled \ SystemEvents
\* _EXPORTABLE_POSITIVE_WHERE and _EXPORTABLE_WHERE: what count_exportable_events
\* counts, and what get_exportable_events puts into the archive.
Positives == {e \in Rows \ SystemEvents :
                  row[e].label \in {"correct", "wrong_class"} /\ row[e].bbox /\ row[e].path}
Exportable == {e \in Rows \ SystemEvents :
                  row[e].label # "none" /\ row[e].path /\ (row[e].bbox \/ row[e].label = "false_positive")}
\* export_dataset: refused without a class; a row without its file is skipped.
InArchive == IF Positives = {} THEN {} ELSE {e \in Exportable : snapshot[e] # "none"}
\* _attach_clips: the link an event is shown with.
ClipShown == {e \in Rows : e \in clips}

\* Labelled and system events are never pruned, nor the clip of a labelled one,
\* except what the cleaner could not know; and a path, or a clip, that is shown
\* leads to a file, except when an update about it was not made.
RetentionKeepsItsPromises ==
    /\ kept \subseteq Rows
    /\ \A e \in Labelled \intersect clips : clip[e] = "none" => e \in unseen \union torn
    /\ \A e \in Rows \ (torn \union cleaner.done) :
           (row[e].path => snapshot[e] # "none") /\ (e \in ClipShown => clip[e] # "none")

\* The pages agree: what is reviewed, what is protected and what will be pruned are
\* the events, the archive is a part of what is protected, and an archive the
\* headline promises is not refused.
PagesAgree ==
    /\ Listed("all") = Listed("reviewed") \union Listed("unreviewed")
    /\ TotalLabelled = Listed("reviewed") /\ Listed("unreviewed") = Pruneable(Rows)
    /\ ProtectedEvents \intersect Pruneable(Rows) = {}
    /\ InArchive \subseteq TotalLabelled /\ Positives \subseteq Exportable
    /\ Positives \ (torn \union cleaner.done) \subseteq InArchive

\* The cleaner takes what it may, whatever is recorded, labelled or linked while it
\* works, and the pages count what is left alike.
RetentionHolds == RetentionTypeOK /\ RetentionKeepsItsPromises /\ PagesAgree

\* "Labeled events (training data) ... are never pruned": what could be exported
\* still can.
\* The code does not keep this; TLC refutes it (README, section 3).
TrainingDataIsKept == [][\A e \in Positives : e \in Positives' \/ row'[e].label # row[e].label]_retentionVars
=============================================================================

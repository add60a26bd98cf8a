---------------------------- MODULE EvidenceProofs ----------------------------
(***************************************************************************)
(* Proofs about what becomes of an event: its retention, the enrolled      *)
(* faces, its recognition, its publication and its clip, each for any      *)
(* constants.                                                              *)
(***************************************************************************)
EXTENDS MCEvidence, SeqLemmas, FiniteSetTheorems, TLAPS

-----------------------------------------------------------------------------
(* Retention.                                                              *)

Columns == [here : BOOLEAN, path : BOOLEAN, bbox : BOOLEAN, label : Labels \union {"none"}]
CleanerPlaces == {"asleep", "snapshots", "clips", "looking", "unlinking", "database"}

RetentionTyped ==
    /\ row \in [Recorded -> Columns]
    /\ snapshot \in [Recorded -> Ages] /\ clip \in [Recorded -> Ages]
    /\ clips \in SUBSET Recorded /\ old \in SUBSET Recorded
    /\ cleaner \in [at : CleanerPlaces, todo : SUBSET Recorded, done : SUBSET Recorded]

\* What was labelled, or is the system's, has its row.
KeptHasItsRow == \A e \in kept : e \in Recorded /\ row[e].here /\ (row[e].label # "none" \/ e \in SystemEvents)

\* A path without its file is one the cleaner is about to clear, or could not clear;
\* and a token in the clips table without its file likewise.
GoneSnapshotsAreKnown ==
    \A e \in Recorded : row[e].path /\ snapshot[e] = "none" =>
        e \in torn \/ (cleaner.at = "snapshots" /\ e \in cleaner.done)
GoneClipsAreKnown ==
    \A e \in clips : clip[e] = "none" => e \in torn \/ (cleaner.at = "unlinking" /\ e \in cleaner.done)

\* The cleaner takes no labelled clip it has seen the label of.
TakenUnseen ==
    cleaner.at = "unlinking" =>
        \A e \in cleaner.todo \union cleaner.done : row[e].here /\ row[e].label # "none" => e \in unseen

RetentionInv ==
    RetentionTyped /\ KeptHasItsRow /\ GoneSnapshotsAreKnown /\ GoneClipsAreKnown /\ TakenUnseen

LEMMA RetentionStep == ASSUME RetentionInv, [RetentionNext]_retentionVars PROVE RetentionInv'
<1> USE DEF RetentionInv
<1>1. ASSUME NEW e \in Recorded, NEW path \in BOOLEAN, Record(e, path) PROVE RetentionInv'
  <2> DEFINE new == [here |-> TRUE, path |-> path, bbox |-> e \in Detected, label |-> "none"]
  <2>1. /\ new \in Columns /\ new.here /\ new.path = path /\ new.label = "none" /\ e \notin kept
        /\ row' = [row EXCEPT ![e] = new]
        /\ snapshot' = [snapshot EXCEPT ![e] = IF path THEN "fresh" ELSE "none"]
        /\ kept' = IF e \in SystemEvents THEN kept \union {e} ELSE kept
        /\ UNCHANGED <<clips, clip, old, cleaner, torn, unseen>>
    BY <1>1 DEF Record, Columns
  <2> HIDE DEF new
  <2>2. RetentionTyped'
    BY <2>1 DEF RetentionTyped, Ages
  <2>3. KeptHasItsRow'
    BY <2>1 DEF RetentionTyped, KeptHasItsRow
  <2>4. GoneSnapshotsAreKnown'
    BY <2>1 DEF RetentionTyped, GoneSnapshotsAreKnown
  <2>5. GoneClipsAreKnown'
    BY <2>1 DEF GoneClipsAreKnown
  <2>6. TakenUnseen'
    BY <2>1 DEF RetentionTyped, TakenUnseen
  <2> QED BY <2>2, <2>3, <2>4, <2>5, <2>6
<1>2. ASSUME NEW e \in Recorded, NEW label \in Labels, Label(e, label) PROVE RetentionInv'
  <2> DEFINE new == [row[e] EXCEPT !.label = label]
  <2>1. /\ new \in Columns /\ new.here /\ new.path = row[e].path /\ new.label = label /\ label # "none"
        /\ row' = [row EXCEPT ![e] = new] /\ row[e].here
        /\ kept' = kept \union {e}
        /\ unseen' = IF cleaner.at = "unlinking" /\ e \in cleaner.todo \union cleaner.done THEN unseen \union {e} ELSE unseen
        /\ UNCHANGED <<clips, snapshot, clip, old, cleaner, torn>>
    BY <1>2 DEF Label, Columns, RetentionTyped, Labels
  <2> HIDE DEF new
  <2>2. RetentionTyped'
    BY <2>1 DEF RetentionTyped
  <2>3. KeptHasItsRow'
    BY <2>1 DEF RetentionTyped, KeptHasItsRow
  <2>4. GoneSnapshotsAreKnown'
    BY <2>1 DEF RetentionTyped, GoneSnapshotsAreKnown
  <2>5. GoneClipsAreKnown'
    BY <2>1 DEF GoneClipsAreKnown
  <2>6. TakenUnseen'
    BY <2>1 DEF RetentionTyped, TakenUnseen
  <2> QED BY <2>2, <2>3, <2>4, <2>5, <2>6
<1>3. ASSUME NEW e \in Recorded, WriteEventClip(e) \/ RowAges(e) \/ FilesAge(e) PROVE RetentionInv'
  BY <1>3 DEF WriteEventClip, RowAges, FilesAge, RetentionTyped, Ages, KeptHasItsRow, GoneSnapshotsAreKnown,
              GoneClipsAreKnown, TakenUnseen
<1>4. CASE StartRun \/ EnumerateClips \/ CleanerDies
  BY <1>4 DEF StartRun, EnumerateClips, CleanerDies, Step, Asleep, CleanerPlaces, RetentionTyped, KeptHasItsRow,
              GoneSnapshotsAreKnown, GoneClipsAreKnown, TakenUnseen
<1>5. CASE \E e \in Recorded : UnlinkSnapshot(e) \/ UnlinkClip(e)
  BY <1>5 DEF UnlinkSnapshot, UnlinkClip, Step, CleanerPlaces, RetentionTyped, Ages, KeptHasItsRow,
              GoneSnapshotsAreKnown, GoneClipsAreKnown, TakenUnseen
<1>6. CASE ClearPaths
  <2>1. CASE torn' = torn \union cleaner.done /\ UNCHANGED row
    BY <1>6, <2>1 DEF ClearPaths, Step, CleanerPlaces, RetentionTyped, KeptHasItsRow,
                GoneSnapshotsAreKnown, GoneClipsAreKnown, TakenUnseen
  <2>2. CASE row' = [e \in Recorded |-> IF e \in cleaner.done THEN [row[e] EXCEPT !.path = FALSE] ELSE row[e]]
             /\ UNCHANGED torn
    <3>1. \A e \in Recorded : /\ row'[e] \in Columns /\ row'[e].here = row[e].here /\ row'[e].label = row[e].label
                              /\ row'[e].path = (row[e].path /\ e \notin cleaner.done)
      BY <2>2 DEF RetentionTyped, Columns
    <3>2. /\ row' \in [Recorded -> Columns] /\ cleaner' = [at |-> "clips", todo |-> {}, done |-> {}]
          /\ cleaner.at = "snapshots" /\ UNCHANGED <<clips, snapshot, clip, old, torn, unseen, kept>>
      BY <1>6, <2>2, <3>1 DEF ClearPaths, Step
    <3> QED
      BY <3>1, <3>2 DEF CleanerPlaces, RetentionTyped, KeptHasItsRow, GoneSnapshotsAreKnown, GoneClipsAreKnown,
                        TakenUnseen
  <2> QED BY <1>6, <2>1, <2>2 DEF ClearPaths
<1>7. CASE FilterLabelled
  BY <1>7 DEF FilterLabelled, LabelledTokens, Labelled, Rows, Step, CleanerPlaces, RetentionTyped, KeptHasItsRow,
              GoneSnapshotsAreKnown, GoneClipsAreKnown, TakenUnseen
<1>8. CASE DeleteClipRows
  BY <1>8 DEF DeleteClipRows, Step, CleanerPlaces, RetentionTyped, KeptHasItsRow,
              GoneSnapshotsAreKnown, GoneClipsAreKnown, TakenUnseen
<1>9. CASE PruneRows
  <2>1. \A e \in Recorded : /\ row'[e] \in Columns /\ (row'[e] = row[e] \/ row'[e] = NoRow)
                            /\ row[e].label # "none" \/ e \in SystemEvents => row'[e] = row[e]
    BY <1>9 DEF PruneRows, Pruneable, NoRow, Columns, RetentionTyped
  <2>2. /\ row' \in [Recorded -> Columns] /\ cleaner' = Asleep
        /\ cleaner.at = "database" /\ UNCHANGED <<clips, snapshot, clip, old, torn, unseen, kept>>
    BY <1>9, <2>1 DEF PruneRows
  <2> QED
    BY <2>1, <2>2 DEF NoRow, Asleep, CleanerPlaces, RetentionTyped, KeptHasItsRow, GoneSnapshotsAreKnown,
                      GoneClipsAreKnown, TakenUnseen
<1>10. CASE UNCHANGED retentionVars
  BY <1>10 DEF retentionVars, RetentionTyped, KeptHasItsRow, GoneSnapshotsAreKnown, GoneClipsAreKnown, TakenUnseen
<1> QED
  BY <1>1, <1>2, <1>3, <1>4, <1>5, <1>6, <1>7, <1>8, <1>9, <1>10 DEF RetentionNext

\* What the cleaner takes and what the pages count agree in every state the
\* invariant allows.
LEMMA RetentionInvSuffices == RetentionInv => RetentionHolds
<1> SUFFICES ASSUME RetentionInv PROVE RetentionHolds
  OBVIOUS
<1> USE DEF RetentionInv
<1>1. RetentionTypeOK
  BY DEF RetentionTypeOK, RetentionTyped, Columns, CleanerPlaces
<1>2. RetentionKeepsItsPromises
  BY DEF RetentionKeepsItsPromises, RetentionTyped, KeptHasItsRow, GoneSnapshotsAreKnown, GoneClipsAreKnown,
         TakenUnseen, ClipShown, Labelled, Rows
<1>3. PagesAgree
  <2>1. \A e \in Positives : row[e].label # "none"
    BY DEF Positives
  <2>2. Positives \subseteq Exportable
    BY <2>1 DEF Positives, Exportable
  <2>3. \A e \in Positives : e \notin torn \union cleaner.done => snapshot[e] # "none"
    BY DEF Positives, Rows, GoneSnapshotsAreKnown
  <2>4. Positives \ (torn \union cleaner.done) \subseteq InArchive
    BY <2>2, <2>3 DEF InArchive
  <2> QED
    BY <2>2, <2>4 DEF PagesAgree, Listed, TotalLabelled, ProtectedEvents, Pruneable, InArchive, Exportable, Labelled, Rows
<1> QED BY <1>1, <1>2, <1>3 DEF RetentionHolds

\* Labelled and system events are never pruned, a path or clip that is shown leads
\* to a file, and pages and export count alike, for any events (cleanup.py, db.py).
THEOREM RetentionIsCorrect == RetentionSpec => []RetentionHolds
<1>1. RetentionInit => RetentionInv
  BY DEF RetentionInit, RetentionInv, RetentionTyped, NoRow, Asleep, Columns, Ages, CleanerPlaces, KeptHasItsRow,
         GoneSnapshotsAreKnown, GoneClipsAreKnown, TakenUnseen
<1> QED BY <1>1, RetentionStep, RetentionInvSuffices, PTL DEF RetentionSpec

-----------------------------------------------------------------------------
(* Enrolment.                                                              *)

\* A set of numbers below a bound has a largest element.
LEMMA LargestExists ==
    ASSUME NEW n \in Nat, NEW S \in SUBSET (0 .. n), S # {}
    PROVE  \E m \in S : \A k \in S : k <= m
<1> DEFINE T == {n - k : k \in S}
<1>1. T \subseteq Nat /\ T # {}
  <2>1. \A k \in S : k \in 0 .. n /\ n - k \in Nat
    OBVIOUS
  <2> QED BY <2>1
<1>2. PICK t \in T : \A u \in T : ~(<<u, t>> \in OpToRel(<, Nat))
  BY <1>1, WFMin, NatLessThanWellFounded
<1>3. PICK m \in S : t = n - m
  OBVIOUS
<1>4. ASSUME NEW k \in S PROVE k <= m
  <2> SUFFICES ASSUME m < k PROVE FALSE
    OBVIOUS
  <2>1. n - k \in T /\ n - k \in Nat /\ t \in Nat /\ n - k < t
    BY <1>3
  <2>2. <<n - k, t>> \in OpToRel(<, Nat)
    BY <2>1 DEF OpToRel
  <2> QED BY <2>1, <2>2, <1>2
<1> QED BY <1>4

HandlerStates == [at : {"free", "wrote", "saved", "deleting"}, face : 0 .. MaxFaces, photo : Photos]
RecognizerStates ==
    [at : {"down", "sweeping", "listing", "embedding", "lost", "listening", "answering"},
     dirs : SUBSET Faces, face : 0 .. MaxFaces, todo : SUBSET Photos, photo : Photos]
Announcements == [face : Faces, photo : Photos]

EnrollTyped ==
    /\ lastFace \in 0 .. MaxFaces /\ knownFaces \in SUBSET (1 .. lastFace)
    /\ photoFiles \in [Faces -> SUBSET Photos]
    /\ embeddings \in [Faces -> [Names -> 0 .. 1]]
    /\ upload \in [Uploads -> 0 .. MaxFaces]
    /\ handler \in HandlerStates
    /\ handler.at # "free" => handler.face \in 1 .. lastFace
    /\ announced \in Seq(Announcements)
    /\ recognizer \in RecognizerStates
    /\ recognizer.at \in {"listing", "embedding", "answering"} => recognizer.face \in Faces
    /\ missed \in SUBSET (Faces \X Photos) /\ escaped \in SUBSET (1 .. lastFace)

\* The photo the recognizer is at has no embedding: it has looked, and nobody
\* else makes one.
PhotoIsNew ==
    recognizer.at \in {"embedding", "answering"} => embeddings[recognizer.face][recognizer.photo.name] = 0

\* What still leads the recognizer to a photo, or excuses it.
IsSaved(f, p) == handler.at = "saved" /\ handler.face = f /\ handler.photo = p
IsSwept(f, p) ==
    \/ recognizer.at = "down"
    \/ recognizer.at \in {"sweeping", "listing", "embedding"} /\ f \in recognizer.dirs
    \/ recognizer.at \in {"listing", "embedding"} /\ f = recognizer.face /\ p \in recognizer.todo
    \/ recognizer.at \in {"embedding", "answering"} /\ f = recognizer.face /\ p = recognizer.photo
IsAnnounced(f, p) == \E i \in DOMAIN announced : announced[i].face = f /\ announced[i].photo = p

Reached(f, p) ==
    \/ ~p.oneFace \/ p.name = Temporary \/ embeddings[f][p.name] > 0
    \/ <<f, p>> \in missed \/ IsSaved(f, p) \/ IsSwept(f, p) \/ IsAnnounced(f, p)

PhotosAreReached == \A f \in knownFaces : \A p \in photoFiles[f] : Reached(f, p)

\* A photo is only written for a face that is known, or whose deletion met its upload.
WritersAreKnown ==
    /\ \A u \in Uploads : upload[u] # 0 => upload[u] \in knownFaces \cup escaped
    /\ handler.at \in {"wrote", "saved"} => handler.face \in knownFaces \cup escaped
    /\ \A f \in Faces : lastFace < f => photoFiles[f] = {}

\* A face that was deleted has no embeddings, and once its deletion is over no photos.
DeletedIsForgotten ==
    \A f \in 1 .. lastFace : f \notin knownFaces =>
        /\ \A n \in Names : embeddings[f][n] = 0
        /\ f \notin escaped /\ ~(handler.at = "deleting" /\ handler.face = f) => photoFiles[f] = {}

EnrollInv == EnrollTyped /\ PhotoIsNew /\ PhotosAreReached /\ WritersAreKnown /\ DeletedIsForgotten

\* The next photo has a name of its own.
LEMMA NextPhotoIndexType ==
    ASSUME EnrollAssumption, EnrollTyped, NEW f \in Faces
    PROVE  NextPhotoIndex(f) \in 1 .. MaxPhotos + 1
<1> DEFINE S == {0} \cup {p.name : p \in photoFiles[f]}
<1>1. S \in SUBSET (0 .. MaxPhotos) /\ 0 \in S
  BY DEF EnrollTyped, Photos, Names, Temporary, EnrollAssumption
<1>2. PICK m \in S : \A k \in S : k <= m
  BY <1>1, LargestExists DEF EnrollAssumption
<1>3. m \in Names /\ (m = 0 \/ \E p \in photoFiles[f] : p.name = m) /\ \A p \in photoFiles[f] : p.name <= m
  BY <1>1, <1>2 DEF Names, Temporary
<1>4. LastPhotoIndex(f) \in Names
  BY <1>3 DEF LastPhotoIndex
<1> QED BY <1>4 DEF NextPhotoIndex, Names, Temporary, EnrollAssumption

\* Embedding a photo that has none gives it one, if it shows a face and the face is known.
LEMMA EmbedEffect ==
    ASSUME EnrollAssumption, EnrollTyped, NEW f \in Faces, NEW p \in Photos, embeddings[f][p.name] = 0, Embed(f, p)
    PROVE  /\ embeddings' \in [Faces -> [Names -> 0 .. 1]]
           /\ \A g \in Faces, n \in Names :
                 embeddings'[g][n] = IF g = f /\ n = p.name /\ p.oneFace /\ p \in photoFiles[f] /\ f \in knownFaces
                                     THEN 1 ELSE embeddings[g][n]
<1>1. p.name \in Names
  BY DEF Photos
<1>2. CASE p.oneFace /\ p \in photoFiles[f] /\ f \in knownFaces
  <2>1. embeddings' = [embeddings EXCEPT ![f] = [embeddings[f] EXCEPT ![p.name] = 1]]
    BY <1>2, <1>1 DEF Embed, Replaced, EnrollTyped
  <2> QED BY <1>1, <1>2, <2>1 DEF EnrollTyped
<1>3. CASE ~(p.oneFace /\ p \in photoFiles[f] /\ f \in knownFaces)
  BY <1>3 DEF Embed, EnrollTyped
<1> QED BY <1>2, <1>3

LEMMA EnrollTypes ==
    ASSUME EnrollAssumption
    PROVE  /\ \A p \in Photos : p.name \in Names /\ p.oneFace \in BOOLEAN
           /\ NoRequest \in HandlerStates /\ NoRequest.at = "free"
           /\ Down \in RecognizerStates /\ Down.at = "down" /\ Down.dirs = {}
           /\ Temporary \in Names
BY DEF EnrollAssumption, Photos, Names, Temporary, NoRequest, HandlerStates, Down, RecognizerStates

LEMMA EnrollStep == ASSUME EnrollAssumption, EnrollInv, [EnrollmentNext]_enrollVars PROVE EnrollInv'
<1> USE DEF EnrollInv, EnrollAssumption
<1>1. ASSUME NEW u \in Uploads, FacesCreate(u) PROVE EnrollInv'
  <2>1. EnrollTyped'
    BY <1>1, EnrollTypes DEF FacesCreate, LoopIsFree, Faces, EnrollTyped
  <2>2. PhotoIsNew'
    BY <1>1, EnrollTypes DEF FacesCreate, LoopIsFree, Faces, EnrollTyped, PhotoIsNew
  <2>3. PhotosAreReached'
    <3> SUFFICES ASSUME NEW g \in knownFaces', NEW q \in photoFiles'[g] PROVE Reached(g, q)'
      BY DEF PhotosAreReached
    <3>1. g \in knownFaces /\ q \in photoFiles[g] /\ Reached(g, q)
      BY <1>1 DEF FacesCreate, Faces, EnrollTyped, PhotosAreReached, WritersAreKnown
    <3> QED BY <1>1, <3>1 DEF FacesCreate, EnrollTyped, Reached, IsSaved, IsSwept, IsAnnounced
  <2>4. WritersAreKnown'
    BY <1>1, EnrollTypes DEF FacesCreate, LoopIsFree, Faces, EnrollTyped, WritersAreKnown
  <2>5. DeletedIsForgotten'
    BY <1>1, EnrollTypes DEF FacesCreate, LoopIsFree, Faces, EnrollTyped, DeletedIsForgotten, WritersAreKnown
  <2> QED BY <2>1, <2>2, <2>3, <2>4, <2>5
<1>2. ASSUME NEW u \in Uploads, NEW f \in Faces, FacesAddPhotos(u, f) PROVE EnrollInv'
  <2>1. EnrollTyped'
    BY <1>2, EnrollTypes DEF FacesAddPhotos, LoopIsFree, Faces, EnrollTyped, HandlerStates, RecognizerStates, Announcements
  <2>2. PhotoIsNew'
    BY <1>2, EnrollTypes DEF FacesAddPhotos, LoopIsFree, Faces, EnrollTyped, PhotoIsNew
  <2>3. PhotosAreReached'
    <3> SUFFICES ASSUME NEW g \in knownFaces', NEW q \in photoFiles'[g] PROVE Reached(g, q)'
      BY DEF PhotosAreReached
    <3>1. g \in knownFaces /\ q \in photoFiles[g] /\ Reached(g, q)
      BY <1>2 DEF FacesAddPhotos, LoopIsFree, Faces, EnrollTyped, PhotosAreReached
    <3> QED BY <1>2, <3>1 DEF FacesAddPhotos, LoopIsFree, Faces, EnrollTyped, Reached, IsSaved, IsSwept, IsAnnounced
  <2>4. WritersAreKnown'
    BY <1>2, EnrollTypes DEF FacesAddPhotos, LoopIsFree, Faces, EnrollTyped, WritersAreKnown
  <2>5. DeletedIsForgotten'
    BY <1>2, EnrollTypes DEF FacesAddPhotos, LoopIsFree, Faces, EnrollTyped, DeletedIsForgotten, WritersAreKnown
  <2> QED BY <2>1, <2>2, <2>3, <2>4, <2>5
<1>3. ASSUME NEW u \in Uploads, UploadEnds(u) PROVE EnrollInv'
  <2>1. EnrollTyped'
    BY <1>3, EnrollTypes DEF UploadEnds, LoopIsFree, EnrollTyped, HandlerStates, RecognizerStates, Announcements
  <2>2. PhotoIsNew'
    BY <1>3, EnrollTypes DEF UploadEnds, LoopIsFree, EnrollTyped, PhotoIsNew
  <2>3. PhotosAreReached'
    <3> SUFFICES ASSUME NEW g \in knownFaces', NEW q \in photoFiles'[g] PROVE Reached(g, q)'
      BY DEF PhotosAreReached
    <3>1. g \in knownFaces /\ q \in photoFiles[g] /\ Reached(g, q)
      BY <1>3 DEF UploadEnds, LoopIsFree, EnrollTyped, PhotosAreReached
    <3> QED BY <1>3, <3>1 DEF UploadEnds, LoopIsFree, EnrollTyped, Reached, IsSaved, IsSwept, IsAnnounced
  <2>4. WritersAreKnown'
    BY <1>3, EnrollTypes DEF UploadEnds, LoopIsFree, EnrollTyped, WritersAreKnown
  <2>5. DeletedIsForgotten'
    BY <1>3, EnrollTypes DEF UploadEnds, LoopIsFree, EnrollTyped, DeletedIsForgotten, WritersAreKnown
  <2> QED BY <2>1, <2>2, <2>3, <2>4, <2>5
<1>4. ASSUME NEW u \in Uploads, SavePhoto(u) PROVE EnrollInv'
  <2> DEFINE f == upload[u]
  <2>a. f \in knownFaces \cup escaped /\ f \in 1 .. lastFace /\ f \in Faces
    BY <1>4 DEF SavePhoto, EnrollTyped, WritersAreKnown, Faces
  <2>0. \E temporary, photo \in Photos :
           /\ temporary.name = Temporary
           /\ handler.at = "free"
           /\ photoFiles' = [photoFiles EXCEPT ![f] = @ \cup {temporary}]
           /\ handler' = [at |-> "wrote", face |-> f, photo |-> photo]
           /\ UNCHANGED <<knownFaces, lastFace, embeddings, upload, announced, recognizer, missed, escaped, enrollFaults>>
    <3>1. PICK oneFace \in BOOLEAN :
             /\ NextPhotoIndex(f) <= MaxPhotos
             /\ photoFiles' = [photoFiles EXCEPT ![f] = @ \cup {[name |-> Temporary, oneFace |-> oneFace]}]
             /\ handler' = [at |-> "wrote", face |-> f, photo |-> [name |-> NextPhotoIndex(f), oneFace |-> oneFace]]
      BY <1>4 DEF SavePhoto
    <3>2. [name |-> NextPhotoIndex(f), oneFace |-> oneFace] \in Photos
          /\ [name |-> Temporary, oneFace |-> oneFace] \in Photos
      BY <3>1, <2>a, NextPhotoIndexType, EnrollTypes DEF Photos, Names, Temporary
    <3> QED BY <1>4, <3>1, <3>2 DEF SavePhoto, LoopIsFree
  <2> HIDE DEF f
  <2>1. EnrollTyped'
    BY <2>0, <2>a, EnrollTypes, SMTT(20) DEF EnrollTyped, HandlerStates, RecognizerStates, Announcements
  <2>2. PhotoIsNew'
    BY <2>0, <2>a, EnrollTypes DEF EnrollTyped, PhotoIsNew
  <2>3. PhotosAreReached'
    <3> SUFFICES ASSUME NEW g \in knownFaces', NEW q \in photoFiles'[g] PROVE Reached(g, q)'
      BY DEF PhotosAreReached
    <3>1. q.name = Temporary \/ (g \in knownFaces /\ q \in photoFiles[g] /\ Reached(g, q))
      BY <2>0, <2>a DEF EnrollTyped, PhotosAreReached
    <3> QED BY <2>0, <3>1 DEF EnrollTyped, Reached, IsSaved, IsSwept, IsAnnounced
  <2>4. WritersAreKnown'
    BY <2>0, <2>a, EnrollTypes DEF EnrollTyped, WritersAreKnown
  <2>5. DeletedIsForgotten'
    BY <2>0, <2>a, EnrollTypes DEF EnrollTyped, DeletedIsForgotten, WritersAreKnown
  <2> QED BY <2>1, <2>2, <2>3, <2>4, <2>5
<1>5. ASSUME RenamePhoto PROVE EnrollInv'
  <2>1. EnrollTyped'
    BY <1>5, EnrollTypes DEF RenamePhoto, EnrollTyped, HandlerStates, RecognizerStates, Announcements
  <2>2. PhotoIsNew'
    BY <1>5, EnrollTypes DEF RenamePhoto, EnrollTyped, PhotoIsNew
  <2>3. PhotosAreReached'
    <3> SUFFICES ASSUME NEW g \in knownFaces', NEW q \in photoFiles'[g] PROVE Reached(g, q)'
      BY DEF PhotosAreReached
    <3>1. (g = handler.face /\ q = handler.photo) \/ (g \in knownFaces /\ q \in photoFiles[g] /\ Reached(g, q))
      BY <1>5 DEF RenamePhoto, EnrollTyped, PhotosAreReached
    <3>2. handler' = [handler EXCEPT !.at = "saved"] /\ handler'.at = "saved" /\ handler'.face = handler.face
          /\ handler'.photo = handler.photo
      BY <1>5 DEF RenamePhoto, EnrollTyped, HandlerStates
    <3> QED BY <1>5, <3>1, <3>2 DEF RenamePhoto, EnrollTyped, Reached, IsSaved, IsSwept, IsAnnounced
  <2>4. WritersAreKnown'
    BY <1>5, EnrollTypes DEF RenamePhoto, EnrollTyped, WritersAreKnown
  <2>5. DeletedIsForgotten'
    BY <1>5, EnrollTypes DEF RenamePhoto, EnrollTyped, DeletedIsForgotten, WritersAreKnown
  <2> QED BY <2>1, <2>2, <2>3, <2>4, <2>5
<1>6. ASSUME PhotoRefused PROVE EnrollInv'
  <2>1. EnrollTyped'
    BY <1>6, EnrollTypes DEF PhotoRefused, EnrollTyped, HandlerStates, RecognizerStates, Announcements
  <2>2. PhotoIsNew'
    BY <1>6, EnrollTypes DEF PhotoRefused, EnrollTyped, PhotoIsNew
  <2>3. PhotosAreReached'
    <3> SUFFICES ASSUME NEW g \in knownFaces', NEW q \in photoFiles'[g] PROVE Reached(g, q)'
      BY DEF PhotosAreReached
    <3>1. g \in knownFaces /\ q \in photoFiles[g] /\ Reached(g, q)
      BY <1>6 DEF PhotoRefused, EnrollTyped, PhotosAreReached
    <3> QED BY <1>6, <3>1 DEF PhotoRefused, EnrollTyped, Reached, IsSaved, IsSwept, IsAnnounced
  <2>4. WritersAreKnown'
    BY <1>6, EnrollTypes DEF PhotoRefused, EnrollTyped, WritersAreKnown
  <2>5. DeletedIsForgotten'
    BY <1>6, EnrollTypes DEF PhotoRefused, EnrollTyped, DeletedIsForgotten, WritersAreKnown
  <2> QED BY <2>1, <2>2, <2>3, <2>4, <2>5
<1>7. ASSUME PublishEnrollment PROVE EnrollInv'
  <2> DEFINE m == [face |-> handler.face, photo |-> handler.photo]
  <2>a. /\ m \in Announcements /\ m.face = handler.face /\ m.photo = handler.photo
        /\ <<handler.face, handler.photo>> \in Faces \X Photos
    BY <1>7 DEF PublishEnrollment, EnrollTyped, HandlerStates, Announcements, Faces
  <2>b. /\ Append(announced, m) \in Seq(Announcements) /\ DOMAIN announced = 1 .. Len(announced)
        /\ Len(announced) \in Nat /\ DOMAIN Append(announced, m) = 1 .. Len(announced) + 1
        /\ \A i \in 1 .. Len(announced) : Append(announced, m)[i] = announced[i]
        /\ Append(announced, m)[Len(announced) + 1] = m
    <3> HIDE DEF m
    <3>1. announced \in Seq(Announcements) /\ m \in Announcements
      BY <2>a DEF EnrollTyped
    <3> QED BY <3>1, AppendProperties, LenProperties
  <2>0. /\ handler.at = "saved" /\ handler' = NoRequest
        /\ \/ announced' = Append(announced, m) /\ UNCHANGED missed
           \/ missed' = missed \cup {<<handler.face, handler.photo>>} /\ UNCHANGED announced
        /\ UNCHANGED <<knownFaces, lastFace, photoFiles, embeddings, upload, recognizer, escaped>>
    BY <1>7 DEF PublishEnrollment
  <2> HIDE DEF m
  <2>1. EnrollTyped'
    BY <2>0, <2>a, <2>b, EnrollTypes DEF EnrollTyped
  <2>2. PhotoIsNew'
    BY <2>0, <2>a, EnrollTypes DEF EnrollTyped, PhotoIsNew
  <2>3. PhotosAreReached'
    <3> SUFFICES ASSUME NEW g \in knownFaces', NEW q \in photoFiles'[g] PROVE Reached(g, q)'
      BY DEF PhotosAreReached
    <3>1. g \in knownFaces /\ q \in photoFiles[g] /\ Reached(g, q)
      BY <2>0 DEF EnrollTyped, PhotosAreReached
    <3>2. IsAnnounced(g, q) => IsAnnounced(g, q)'
      BY <2>0, <2>a, <2>b DEF IsAnnounced, EnrollTyped
    <3>3. IsSaved(g, q) => IsAnnounced(g, q)' \/ <<g, q>> \in missed'
      BY <2>0, <2>a, <2>b DEF IsAnnounced, IsSaved, EnrollTyped
    <3> QED BY <2>0, <3>1, <3>2, <3>3 DEF Reached, IsSwept
  <2>4. WritersAreKnown'
    BY <2>0, <2>a, EnrollTypes DEF EnrollTyped, WritersAreKnown
  <2>5. DeletedIsForgotten'
    BY <2>0, <2>a, EnrollTypes DEF EnrollTyped, DeletedIsForgotten, WritersAreKnown
  <2> QED BY <2>1, <2>2, <2>3, <2>4, <2>5
<1>8. ASSUME NEW f \in Faces, DeleteFace(f) PROVE EnrollInv'
  <2> DEFINE gone == [NoRequest EXCEPT !.at = "deleting", !.face = f]
  <2>0. /\ f \in knownFaces /\ f \in 1 .. lastFace /\ handler.at = "free"
        /\ knownFaces' = knownFaces \ {f}
        /\ embeddings' = [embeddings EXCEPT ![f] = [n \in Names |-> 0]]
        /\ handler' = gone
        /\ escaped' = IF \E u \in Uploads : upload[u] = f THEN escaped \cup {f} ELSE escaped
        /\ UNCHANGED <<lastFace, photoFiles, upload, announced, recognizer, missed, enrollFaults>>
    BY <1>8 DEF DeleteFace, LoopIsFree, EnrollTyped
  <2>a. /\ gone \in HandlerStates /\ gone.at = "deleting" /\ gone.face = f
        /\ \A g \in Faces : embeddings'[g] = IF g = f THEN [n \in Names |-> 0] ELSE embeddings[g]
        /\ embeddings' \in [Faces -> [Names -> 0 .. 1]]
        /\ \A g \in Faces, n \in Names : embeddings'[g][n] = IF g = f THEN 0 ELSE embeddings[g][n]
    <3>0. f \in 0 .. MaxFaces
      BY DEF Faces
    <3>1. gone \in HandlerStates /\ gone.at = "deleting" /\ gone.face = f
      BY <3>0, EnrollTypes DEF HandlerStates
    <3>2. /\ \A g \in Faces : embeddings'[g] = IF g = f THEN [n \in Names |-> 0] ELSE embeddings[g]
          /\ embeddings' \in [Faces -> [Names -> 0 .. 1]]
      BY <2>0 DEF EnrollTyped
    <3> QED BY <3>1, <3>2
  <2> HIDE DEF gone
  <2>1. EnrollTyped'
    BY <2>0, <2>a, EnrollTypes DEF EnrollTyped, HandlerStates, RecognizerStates, Announcements
  <2>2. PhotoIsNew'
    BY <2>0, <2>a, EnrollTypes DEF EnrollTyped, PhotoIsNew, RecognizerStates
  <2>3. PhotosAreReached'
    <3> SUFFICES ASSUME NEW g \in knownFaces', NEW q \in photoFiles'[g] PROVE Reached(g, q)'
      BY DEF PhotosAreReached
    <3>1. g \in knownFaces /\ q \in photoFiles[g] /\ Reached(g, q) /\ g # f
      BY <2>0 DEF EnrollTyped, PhotosAreReached
    <3> QED BY <2>0, <2>a, <3>1 DEF EnrollTyped, Faces, Reached, IsSaved, IsSwept, IsAnnounced
  <2>4. WritersAreKnown'
    BY <2>0, <2>a, EnrollTypes DEF EnrollTyped, WritersAreKnown
  <2>5. DeletedIsForgotten'
    BY <2>0, <2>a DEF EnrollTyped, Faces, DeletedIsForgotten
  <2> QED BY <2>1, <2>2, <2>3, <2>4, <2>5
<1>9. ASSUME RemoveDirectory PROVE EnrollInv'
  <2>0. \E rest \in SUBSET photoFiles[handler.face] :
           /\ handler.at = "deleting" /\ handler' = NoRequest
           /\ photoFiles' = [photoFiles EXCEPT ![handler.face] = rest]
           /\ (rest = {} /\ escaped' = escaped) \/ escaped' = escaped \cup {handler.face}
           /\ UNCHANGED <<knownFaces, lastFace, embeddings, upload, announced, recognizer, missed>>
    BY <1>9 DEF RemoveDirectory
  <2>1. EnrollTyped'
    BY <2>0, EnrollTypes DEF EnrollTyped, Faces
  <2>2. PhotoIsNew'
    BY <2>0, EnrollTypes DEF EnrollTyped, PhotoIsNew
  <2>3. PhotosAreReached'
    <3> SUFFICES ASSUME NEW g \in knownFaces', NEW q \in photoFiles'[g] PROVE Reached(g, q)'
      BY DEF PhotosAreReached
    <3>1. g \in knownFaces /\ q \in photoFiles[g] /\ Reached(g, q)
      BY <2>0 DEF EnrollTyped, Faces, PhotosAreReached
    <3> QED BY <2>0, <3>1 DEF EnrollTyped, Reached, IsSaved, IsSwept, IsAnnounced
  <2>4. WritersAreKnown'
    BY <2>0, EnrollTypes DEF EnrollTyped, Faces, WritersAreKnown
  <2>5. DeletedIsForgotten'
    BY <2>0, EnrollTypes DEF EnrollTyped, Faces, DeletedIsForgotten
  <2> QED BY <2>1, <2>2, <2>3, <2>4, <2>5
<1>10. ASSUME WebCrash PROVE EnrollInv'
  <2>0. handler.at # "free" => handler.face \in Faces /\ <<handler.face, handler.photo>> \in Faces \X Photos
    BY DEF EnrollTyped, HandlerStates, Faces
  <2>1. EnrollTyped'
    <3>1. upload' \in [Uploads -> 0 .. MaxFaces] /\ handler' \in HandlerStates /\ handler'.at = "free"
      BY <1>10, EnrollTypes DEF WebCrash
    <3>2. escaped' \in SUBSET (1 .. lastFace) /\ missed' \in SUBSET (Faces \X Photos)
      BY <1>10, <2>0 DEF WebCrash, EnrollTyped
    <3> QED BY <1>10, <3>1, <3>2 DEF WebCrash, EnrollTyped
  <2>2. PhotoIsNew'
    BY <1>10, EnrollTypes DEF WebCrash, EnrollFault, EnrollTyped, PhotoIsNew
  <2>3. PhotosAreReached'
    <3> SUFFICES ASSUME NEW g \in knownFaces', NEW q \in photoFiles'[g] PROVE Reached(g, q)'
      BY DEF PhotosAreReached
    <3>1. g \in knownFaces /\ q \in photoFiles[g] /\ Reached(g, q)
      BY <1>10 DEF WebCrash, EnrollFault, EnrollTyped, PhotosAreReached
    <3> QED BY <1>10, <3>1 DEF WebCrash, EnrollFault, EnrollTyped, Reached, IsSaved, IsSwept, IsAnnounced
  <2>4. WritersAreKnown'
    BY <1>10, EnrollTypes DEF WebCrash, EnrollFault, EnrollTyped, WritersAreKnown
  <2>5. DeletedIsForgotten'
    BY <1>10, EnrollTypes DEF WebCrash, EnrollFault, EnrollTyped, DeletedIsForgotten, WritersAreKnown
  <2> QED BY <2>1, <2>2, <2>3, <2>4, <2>5
<1>11. ASSUME StartSweep PROVE EnrollInv'
  <2> DEFINE r == [Down EXCEPT !.at = "sweeping", !.dirs = {f \in Faces : photoFiles[f] # {}}]
  <2>a. r \in RecognizerStates /\ r.at = "sweeping" /\ r.dirs = {f \in Faces : photoFiles[f] # {}}
    BY EnrollTypes DEF RecognizerStates
  <2>0. /\ recognizer' = r /\ missed' = {}
        /\ UNCHANGED <<knownFaces, lastFace, photoFiles, embeddings, upload, handler, announced, escaped, enrollFaults>>
    BY <1>11 DEF StartSweep
  <2> HIDE DEF r
  <2>1. EnrollTyped'
    BY <2>0, <2>a, EnrollTypes DEF EnrollTyped, HandlerStates, RecognizerStates, Announcements
  <2>2. PhotoIsNew'
    BY <2>0, <2>a, EnrollTypes DEF EnrollTyped, PhotoIsNew
  <2>3. PhotosAreReached'
    <3> SUFFICES ASSUME NEW g \in knownFaces', NEW q \in photoFiles'[g] PROVE Reached(g, q)'
      BY DEF PhotosAreReached
    <3> QED BY <2>0, <2>a DEF EnrollTyped, Faces, Reached, IsSwept
  <2>4. WritersAreKnown'
    BY <2>0, <2>a, EnrollTypes DEF EnrollTyped, WritersAreKnown
  <2>5. DeletedIsForgotten'
    BY <2>0, <2>a, EnrollTypes DEF EnrollTyped, DeletedIsForgotten, WritersAreKnown
  <2> QED BY <2>1, <2>2, <2>3, <2>4, <2>5
<1>12. ASSUME ListDirectory PROVE EnrollInv'
  <2>0. \E f \in recognizer.dirs, r \in RecognizerStates :
           /\ r.at = "listing" /\ r.dirs = recognizer.dirs \ {f} /\ r.face = f /\ r.todo = photoFiles[f] /\ f \in Faces
           /\ recognizer.at = "sweeping" /\ recognizer' = r
           /\ UNCHANGED <<knownFaces, lastFace, photoFiles, embeddings, upload, handler, announced, missed, escaped>>
    <3>1. PICK f \in recognizer.dirs :
             recognizer' = [recognizer EXCEPT !.at = "listing", !.dirs = @ \ {f}, !.face = f, !.todo = photoFiles[f]]
      BY <1>12 DEF ListDirectory
    <3>a. f \in Faces /\ f \in 0 .. MaxFaces /\ photoFiles[f] \in SUBSET Photos /\ recognizer.dirs \ {f} \in SUBSET Faces
      BY DEF EnrollTyped, RecognizerStates, Faces
    <3>2. recognizer' \in RecognizerStates
      BY <3>1, <3>a DEF EnrollTyped, RecognizerStates
    <3>3. recognizer'.at = "listing" /\ recognizer'.dirs = recognizer.dirs \ {f} /\ recognizer'.face = f
          /\ recognizer'.todo = photoFiles[f] /\ f \in Faces
      BY <3>1 DEF EnrollTyped, RecognizerStates
    <3> QED BY <1>12, <3>1, <3>2, <3>3 DEF ListDirectory
  <2>1. EnrollTyped'
    BY <2>0, EnrollTypes DEF EnrollTyped, HandlerStates, RecognizerStates, Announcements
  <2>2. PhotoIsNew'
    BY <2>0, EnrollTypes DEF EnrollTyped, PhotoIsNew
  <2>3. PhotosAreReached'
    <3> SUFFICES ASSUME NEW g \in knownFaces', NEW q \in photoFiles'[g] PROVE Reached(g, q)'
      BY DEF PhotosAreReached
    <3>1. g \in knownFaces /\ q \in photoFiles[g] /\ Reached(g, q)
      BY <2>0 DEF EnrollTyped, PhotosAreReached
    <3> QED BY <2>0, <3>1 DEF EnrollTyped, Reached, IsSaved, IsSwept, IsAnnounced
  <2>4. WritersAreKnown'
    BY <2>0, EnrollTypes DEF EnrollTyped, WritersAreKnown
  <2>5. DeletedIsForgotten'
    BY <2>0, EnrollTypes DEF EnrollTyped, DeletedIsForgotten, WritersAreKnown
  <2> QED BY <2>1, <2>2, <2>3, <2>4, <2>5
<1>13. ASSUME NextOfSweep PROVE EnrollInv'
  <2>0. /\ recognizer.at = "listing" /\ recognizer' \in RecognizerStates
        /\ recognizer'.dirs = recognizer.dirs
        /\ \/ recognizer.todo = {} /\ recognizer'.at = "sweeping"
           \/ \E p \in recognizer.todo :
                 /\ recognizer'.face = recognizer.face /\ recognizer'.todo = recognizer.todo \ {p}
                 /\ recognizer'.photo = p /\ p \in Photos
                 /\ \/ embeddings[recognizer.face][p.name] > 0 /\ recognizer'.at = "listing"
                    \/ ~(embeddings[recognizer.face][p.name] > 0) /\ recognizer'.at = "embedding"
        /\ UNCHANGED <<knownFaces, lastFace, photoFiles, embeddings, upload, handler, announced, missed, escaped>>
    <3>0. UNCHANGED <<knownFaces, lastFace, photoFiles, embeddings, upload, handler, announced, missed, escaped>>
          /\ recognizer.at = "listing"
      BY <1>13 DEF NextOfSweep
    <3>1. CASE recognizer.todo = {}
      <4>1. recognizer' = [recognizer EXCEPT !.at = "sweeping", !.face = 0]
        BY <1>13, <3>1 DEF NextOfSweep
      <4>2. recognizer' \in RecognizerStates
        <5>1. 0 \in 0 .. MaxFaces
          OBVIOUS
        <5> QED BY <4>1, <5>1 DEF EnrollTyped, RecognizerStates
      <4>3. recognizer'.at = "sweeping" /\ recognizer'.dirs = recognizer.dirs
        BY <4>1 DEF EnrollTyped, RecognizerStates
      <4> QED BY <3>0, <3>1, <4>2, <4>3
    <3>2. CASE recognizer.todo # {}
      <4>1. PICK p \in recognizer.todo :
               recognizer' = [recognizer EXCEPT !.todo = @ \ {p}, !.photo = p,
                                   !.at = IF AlreadyEmbedded(recognizer.face, p) THEN "listing" ELSE "embedding"]
        BY <1>13, <3>2 DEF NextOfSweep
      <4>2. recognizer' \in RecognizerStates /\ p \in Photos
        BY <4>1 DEF EnrollTyped, RecognizerStates
      <4>3. /\ recognizer'.dirs = recognizer.dirs /\ recognizer'.face = recognizer.face
            /\ recognizer'.todo = recognizer.todo \ {p} /\ recognizer'.photo = p
            /\ recognizer'.at = IF AlreadyEmbedded(recognizer.face, p) THEN "listing" ELSE "embedding"
        BY <4>1 DEF EnrollTyped, RecognizerStates
      <4> QED BY <3>0, <4>2, <4>3 DEF AlreadyEmbedded
    <3> QED BY <3>1, <3>2
  <2>a. recognizer.face \in Faces
    BY <2>0 DEF EnrollTyped
  <2>1. EnrollTyped'
    BY <2>0, EnrollTypes DEF EnrollTyped, HandlerStates, RecognizerStates, Announcements
  <2>2. PhotoIsNew'
    BY <2>0, <2>a, EnrollTypes DEF EnrollTyped, PhotoIsNew
  <2>3. PhotosAreReached'
    <3> SUFFICES ASSUME NEW g \in knownFaces', NEW q \in photoFiles'[g] PROVE Reached(g, q)'
      BY DEF PhotosAreReached
    <3>1. g \in knownFaces /\ q \in photoFiles[g] /\ Reached(g, q)
      BY <2>0 DEF EnrollTyped, PhotosAreReached
    <3> QED BY <2>0, <3>1 DEF EnrollTyped, Reached, IsSaved, IsSwept, IsAnnounced
  <2>4. WritersAreKnown'
    BY <2>0, EnrollTypes DEF EnrollTyped, WritersAreKnown
  <2>5. DeletedIsForgotten'
    BY <2>0, EnrollTypes DEF EnrollTyped, DeletedIsForgotten, WritersAreKnown
  <2> QED BY <2>1, <2>2, <2>3, <2>4, <2>5
<1>14. ASSUME EmbedSwept PROVE EnrollInv'
  <2> DEFINE f == recognizer.face
             p == recognizer.photo
  <2>1a. f \in Faces /\ p \in Photos /\ embeddings[f][p.name] = 0 /\ Embed(f, p) /\ recognizer.at = "embedding"
    BY <1>14 DEF EmbedSwept, EnrollTyped, RecognizerStates, PhotoIsNew
  <2>a. /\ embeddings' \in [Faces -> [Names -> 0 .. 1]]
        /\ \A g \in Faces, n \in Names :
              embeddings'[g][n] = IF g = f /\ n = p.name /\ p.oneFace /\ p \in photoFiles[f] /\ f \in knownFaces
                                  THEN 1 ELSE embeddings[g][n]
    BY <2>1a, EmbedEffect
  <2>0. /\ recognizer' \in RecognizerStates /\ recognizer'.at = "listing" /\ f \in Faces /\ p \in Photos
        /\ recognizer.at = "embedding"
        /\ recognizer'.dirs = recognizer.dirs /\ recognizer'.face = f /\ recognizer'.todo = recognizer.todo
        /\ UNCHANGED <<knownFaces, lastFace, photoFiles, upload, handler, announced, missed, escaped>>
    BY <1>14, <2>1a, EnrollTypes DEF EmbedSwept, EnrollTyped, RecognizerStates
  <2> HIDE DEF f, p
  <2>1. EnrollTyped'
    BY <2>0, <2>a DEF EnrollTyped, f
  <2>2. PhotoIsNew'
    BY <2>0, <2>a, EnrollTypes DEF EnrollTyped, PhotoIsNew
  <2>3. PhotosAreReached'
    <3> SUFFICES ASSUME NEW g \in knownFaces', NEW q \in photoFiles'[g] PROVE Reached(g, q)'
      BY DEF PhotosAreReached
    <3>1. g \in knownFaces /\ q \in photoFiles[g] /\ Reached(g, q) /\ g \in Faces /\ q \in Photos /\ q.name \in Names
      BY <2>0, EnrollTypes DEF EnrollTyped, Faces, PhotosAreReached
    <3>2. q.oneFace /\ g = f /\ q = p => embeddings'[g][q.name] > 0
      BY <2>0, <2>a, <3>1
    <3>3. embeddings[g][q.name] > 0 => embeddings'[g][q.name] > 0
      BY <2>a, <3>1 DEF EnrollTyped
    <3> QED BY <2>0, <3>1, <3>2, <3>3 DEF Reached, IsSaved, IsSwept, IsAnnounced, f, p
  <2>4. WritersAreKnown'
    BY <2>0, <2>a, EnrollTypes DEF EnrollTyped, WritersAreKnown
  <2>5. DeletedIsForgotten'
    BY <2>0, <2>a DEF EnrollTyped, Faces, DeletedIsForgotten
  <2> QED BY <2>1, <2>2, <2>3, <2>4, <2>5
<1>15. ASSUME Subscribe PROVE EnrollInv'
  <2>1. EnrollTyped'
    BY <1>15, EnrollTypes DEF Subscribe, EnrollTyped, HandlerStates, RecognizerStates, Announcements
  <2>2. PhotoIsNew'
    BY <1>15, EnrollTypes DEF Subscribe, EnrollTyped, PhotoIsNew
  <2>3. PhotosAreReached'
    <3> SUFFICES ASSUME NEW g \in knownFaces', NEW q \in photoFiles'[g] PROVE Reached(g, q)'
      BY DEF PhotosAreReached
    <3>1. g \in knownFaces /\ q \in photoFiles[g] /\ Reached(g, q)
      BY <1>15 DEF Subscribe, EnrollTyped, PhotosAreReached
    <3> QED BY <1>15, <3>1 DEF Subscribe, EnrollTyped, Reached, IsSaved, IsSwept, IsAnnounced
  <2>4. WritersAreKnown'
    BY <1>15, EnrollTypes DEF Subscribe, EnrollTyped, WritersAreKnown
  <2>5. DeletedIsForgotten'
    BY <1>15, EnrollTypes DEF Subscribe, EnrollTyped, DeletedIsForgotten, WritersAreKnown
  <2> QED BY <2>1, <2>2, <2>3, <2>4, <2>5
<1>16. ASSUME SweepFails PROVE EnrollInv'
  <2>0. Unseen \in SUBSET (Faces \X Photos)
    BY DEF Unseen
  <2>1. EnrollTyped'
    BY <1>16, <2>0, EnrollTypes DEF SweepFails, EnrollTyped, HandlerStates, RecognizerStates, Announcements
  <2>2. PhotoIsNew'
    BY <1>16, EnrollTypes DEF SweepFails, EnrollTyped, PhotoIsNew
  <2>3. PhotosAreReached'
    <3> SUFFICES ASSUME NEW g \in knownFaces', NEW q \in photoFiles'[g] PROVE Reached(g, q)'
      BY DEF PhotosAreReached
    <3>1. g \in knownFaces /\ q \in photoFiles[g] /\ Reached(g, q) /\ g \in Faces /\ q \in Photos /\ q.name \in Names
      BY <1>16, EnrollTypes DEF SweepFails, EnrollTyped, Faces, PhotosAreReached
    <3>2. <<g, q>> \in Unseen \/ q.name = Temporary \/ embeddings[g][q.name] > 0 \/ IsSaved(g, q)
      BY <3>1, Zenon DEF Unseen, AlreadyEmbedded, IsSaved
    <3> QED BY <1>16, <3>1, <3>2 DEF SweepFails, Reached, IsSaved
  <2>4. WritersAreKnown'
    BY <1>16, EnrollTypes DEF SweepFails, EnrollTyped, WritersAreKnown
  <2>5. DeletedIsForgotten'
    BY <1>16, EnrollTypes DEF SweepFails, EnrollTyped, DeletedIsForgotten, WritersAreKnown
  <2> QED BY <2>1, <2>2, <2>3, <2>4, <2>5
<1>17. ASSUME HandleEnrollment PROVE EnrollInv'
  <2> DEFINE m == Head(announced)
  <2>a. /\ m \in Announcements /\ m.face \in Faces /\ m.photo \in Photos /\ m = announced[1]
        /\ Tail(announced) \in Seq(Announcements)
        /\ DOMAIN Tail(announced) = 1 .. Len(announced) - 1
        /\ \A i \in 1 .. Len(announced) - 1 : Tail(announced)[i] = announced[i + 1]
        /\ Len(announced) \in Nat /\ 1 <= Len(announced) /\ DOMAIN announced = 1 .. Len(announced)
    <3>1. announced \in Seq(Announcements) /\ announced # <<>>
      BY <1>17 DEF HandleEnrollment, EnrollTyped
    <3> HIDE DEF m
    <3>2. /\ Tail(announced) \in Seq(Announcements)
          /\ DOMAIN Tail(announced) = 1 .. Len(announced) - 1
          /\ \A i \in 1 .. Len(announced) - 1 : Tail(announced)[i] = announced[i + 1]
          /\ Head(announced) = announced[1] /\ Head(announced) \in Announcements
          /\ Len(announced) \in Nat /\ 1 <= Len(announced) /\ DOMAIN announced = 1 .. Len(announced)
      BY <3>1, TailEffect
    <3>3. m \in Announcements /\ m = announced[1]
      BY <3>2 DEF m
    <3> QED BY <3>2, <3>3 DEF Announcements
  <2>0. /\ recognizer.at = "listening" /\ recognizer' \in RecognizerStates /\ announced' = Tail(announced)
        /\ \/ /\ m.photo \in photoFiles[m.face] /\ ~(embeddings[m.face][m.photo.name] > 0)
              /\ recognizer'.at = "answering" /\ recognizer'.face = m.face /\ recognizer'.photo = m.photo
           \/ /\ ~(m.photo \in photoFiles[m.face] /\ ~(embeddings[m.face][m.photo.name] > 0))
              /\ recognizer' = recognizer
        /\ UNCHANGED <<knownFaces, lastFace, photoFiles, embeddings, upload, handler, missed, escaped>>
    <3>1. /\ recognizer.at = "listening" /\ announced' = Tail(announced)
          /\ recognizer' = IF m.photo \in photoFiles[m.face] /\ ~AlreadyEmbedded(m.face, m.photo)
                            THEN [recognizer EXCEPT !.at = "answering", !.face = m.face, !.photo = m.photo]
                            ELSE recognizer
          /\ UNCHANGED <<knownFaces, lastFace, photoFiles, embeddings, upload, handler, missed, escaped>>
      BY <1>17 DEF HandleEnrollment
    <3> HIDE DEF m
    <3>2. CASE m.photo \in photoFiles[m.face] /\ ~AlreadyEmbedded(m.face, m.photo)
      <4>1. recognizer' = [recognizer EXCEPT !.at = "answering", !.face = m.face, !.photo = m.photo]
        BY <3>1, <3>2
      <4>2. recognizer' \in RecognizerStates
        <5>1. m.face \in 0 .. MaxFaces
          BY <2>a DEF Faces
        <5> QED BY <4>1, <2>a, <5>1 DEF EnrollTyped, RecognizerStates
      <4>3. recognizer'.at = "answering" /\ recognizer'.face = m.face /\ recognizer'.photo = m.photo
        BY <4>1 DEF EnrollTyped, RecognizerStates
      <4> QED BY <3>1, <3>2, <4>2, <4>3 DEF AlreadyEmbedded
    <3>3. CASE ~(m.photo \in photoFiles[m.face] /\ ~AlreadyEmbedded(m.face, m.photo))
      BY <3>1, <3>3 DEF AlreadyEmbedded, EnrollTyped
    <3> QED BY <3>2, <3>3
  <2> HIDE DEF m
  <2>1. EnrollTyped'
    BY <2>0, <2>a, EnrollTypes DEF EnrollTyped, HandlerStates, RecognizerStates, Announcements
  <2>2. PhotoIsNew'
    BY <2>0, <2>a, EnrollTypes DEF EnrollTyped, PhotoIsNew
  <2>3. PhotosAreReached'
    <3> SUFFICES ASSUME NEW g \in knownFaces', NEW q \in photoFiles'[g] PROVE Reached(g, q)'
      BY DEF PhotosAreReached
    <3>1. g \in knownFaces /\ q \in photoFiles[g] /\ Reached(g, q)
      BY <2>0 DEF EnrollTyped, PhotosAreReached
    <3>2. IsAnnounced(g, q) => IsAnnounced(g, q)' \/ (g = m.face /\ q = m.photo)
      <4> SUFFICES ASSUME NEW i \in DOMAIN announced, announced[i].face = g, announced[i].photo = q, i # 1
                   PROVE  IsAnnounced(g, q)'
        BY <2>a DEF IsAnnounced
      <4>1. i - 1 \in DOMAIN announced' /\ announced'[i - 1] = announced[i]
        BY <2>0, <2>a
      <4> QED BY <4>1 DEF IsAnnounced
    <3> QED BY <2>0, <3>1, <3>2 DEF Reached, IsSaved, IsSwept
  <2>4. WritersAreKnown'
    BY <2>0, <2>a, EnrollTypes DEF EnrollTyped, WritersAreKnown
  <2>5. DeletedIsForgotten'
    BY <2>0, <2>a, EnrollTypes DEF EnrollTyped, DeletedIsForgotten, WritersAreKnown
  <2> QED BY <2>1, <2>2, <2>3, <2>4, <2>5
<1>18. ASSUME EmbedOne PROVE EnrollInv'
  <2> DEFINE f == recognizer.face
             p == recognizer.photo
  <2>1a. f \in Faces /\ p \in Photos /\ embeddings[f][p.name] = 0 /\ Embed(f, p) /\ recognizer.at = "answering"
    BY <1>18 DEF EmbedOne, EnrollTyped, RecognizerStates, PhotoIsNew
  <2>a. /\ embeddings' \in [Faces -> [Names -> 0 .. 1]]
        /\ \A g \in Faces, n \in Names :
              embeddings'[g][n] = IF g = f /\ n = p.name /\ p.oneFace /\ p \in photoFiles[f] /\ f \in knownFaces
                                  THEN 1 ELSE embeddings[g][n]
    BY <2>1a, EmbedEffect
  <2>0. /\ recognizer' \in RecognizerStates /\ recognizer'.at = "listening" /\ f \in Faces /\ p \in Photos
        /\ recognizer.at = "answering"
        /\ UNCHANGED <<knownFaces, lastFace, photoFiles, upload, handler, announced, missed, escaped>>
    BY <1>18, <2>1a, EnrollTypes DEF EmbedOne, EnrollTyped, RecognizerStates
  <2> HIDE DEF f, p
  <2>1. EnrollTyped'
    BY <2>0, <2>a DEF EnrollTyped
  <2>2. PhotoIsNew'
    BY <2>0, <2>a, EnrollTypes DEF EnrollTyped, PhotoIsNew
  <2>3. PhotosAreReached'
    <3> SUFFICES ASSUME NEW g \in knownFaces', NEW q \in photoFiles'[g] PROVE Reached(g, q)'
      BY DEF PhotosAreReached
    <3>1. g \in knownFaces /\ q \in photoFiles[g] /\ Reached(g, q) /\ g \in Faces /\ q \in Photos /\ q.name \in Names
      BY <2>0, EnrollTypes DEF EnrollTyped, Faces, PhotosAreReached
    <3>2. q.oneFace /\ g = f /\ q = p => embeddings'[g][q.name] > 0
      BY <2>0, <2>a, <3>1
    <3>3. embeddings[g][q.name] > 0 => embeddings'[g][q.name] > 0
      BY <2>a, <3>1 DEF EnrollTyped
    <3> QED BY <2>0, <3>1, <3>2, <3>3 DEF Reached, IsSaved, IsSwept, IsAnnounced, f, p
  <2>4. WritersAreKnown'
    BY <2>0, <2>a, EnrollTypes DEF EnrollTyped, WritersAreKnown
  <2>5. DeletedIsForgotten'
    BY <2>0, <2>a, SMTT(20) DEF EnrollTyped, Faces, DeletedIsForgotten
  <2> QED BY <2>1, <2>2, <2>3, <2>4, <2>5
<1>19. ASSUME ConnectionLost \/ RecognizerStops PROVE EnrollInv'
  <2>0. /\ recognizer' \in RecognizerStates /\ announced' = <<>>
        /\ missed' = missed \cup Delivered \cup IF ConnectionLost THEN {} ELSE InHand
        /\ recognizer'.at = "down" \/ (recognizer'.at = "lost" /\ recognizer.at = "listening" /\ missed' = missed \cup Delivered)
        /\ UNCHANGED <<knownFaces, lastFace, photoFiles, embeddings, upload, handler, escaped>>
    BY <1>19, EnrollTypes DEF ConnectionLost, RecognizerStops, RecognizerStates
  <2>a. /\ Delivered \subseteq Faces \X Photos /\ InHand \subseteq Faces \X Photos
        /\ \A g, q : IsAnnounced(g, q) => <<g, q>> \in Delivered
    <3>1. \A i \in DOMAIN announced : announced[i].face \in Faces /\ announced[i].photo \in Photos
      <4>1. announced \in Seq(Announcements)
        BY DEF EnrollTyped
      <4>2. \A i \in DOMAIN announced : announced[i] \in Announcements
        BY <4>1, ElementOfSeq, LenProperties
      <4> QED BY <4>2 DEF Announcements
    <3>2. Delivered = {<<announced[i].face, announced[i].photo>> : i \in DOMAIN announced}
      BY DEF Delivered, ToSet
    <3> QED BY <3>1, <3>2 DEF InHand, EnrollTyped, RecognizerStates, IsAnnounced
  <2>1. EnrollTyped'
    BY <2>0, <2>a, EnrollTypes DEF EnrollTyped, HandlerStates, RecognizerStates, Announcements
  <2>2. PhotoIsNew'
    BY <2>0, <2>a, EnrollTypes DEF EnrollTyped, PhotoIsNew
  <2>3. PhotosAreReached'
    <3> SUFFICES ASSUME NEW g \in knownFaces', NEW q \in photoFiles'[g] PROVE Reached(g, q)'
      BY DEF PhotosAreReached
    <3>1. g \in knownFaces /\ q \in photoFiles[g] /\ Reached(g, q)
      BY <2>0 DEF EnrollTyped, PhotosAreReached
    <3> QED BY <2>0, <2>a, <3>1 DEF Reached, IsSaved, IsSwept
  <2>4. WritersAreKnown'
    BY <2>0, <2>a, EnrollTypes DEF EnrollTyped, WritersAreKnown
  <2>5. DeletedIsForgotten'
    BY <2>0, <2>a, EnrollTypes DEF EnrollTyped, DeletedIsForgotten, WritersAreKnown
  <2> QED BY <2>1, <2>2, <2>3, <2>4, <2>5
<1>20. ASSUME UNCHANGED enrollVars PROVE EnrollInv'
  <2>1. EnrollTyped'
    BY <1>20, EnrollTypes DEF enrollVars, EnrollTyped, HandlerStates, RecognizerStates, Announcements
  <2>2. PhotoIsNew'
    BY <1>20, EnrollTypes DEF enrollVars, EnrollTyped, PhotoIsNew
  <2>3. PhotosAreReached'
    <3> SUFFICES ASSUME NEW g \in knownFaces', NEW q \in photoFiles'[g] PROVE Reached(g, q)'
      BY DEF PhotosAreReached
    <3>1. g \in knownFaces /\ q \in photoFiles[g] /\ Reached(g, q)
      BY <1>20 DEF enrollVars, EnrollTyped, PhotosAreReached
    <3> QED BY <1>20, <3>1 DEF enrollVars, EnrollTyped, Reached, IsSaved, IsSwept, IsAnnounced
  <2>4. WritersAreKnown'
    BY <1>20, EnrollTypes DEF enrollVars, EnrollTyped, WritersAreKnown
  <2>5. DeletedIsForgotten'
    BY <1>20, EnrollTypes DEF enrollVars, EnrollTyped, DeletedIsForgotten, WritersAreKnown
  <2> QED BY <2>1, <2>2, <2>3, <2>4, <2>5
<1> QED
  BY <1>1, <1>2, <1>3, <1>4, <1>5, <1>6, <1>7, <1>8, <1>9, <1>10, <1>11, <1>12, <1>13, <1>14, <1>15, <1>16, <1>17, <1>18, <1>19, <1>20 DEF EnrollmentNext

\* The types and the rest of the invariant give all that is promised of enrolment.
LEMMA EnrollInvSuffices == ASSUME EnrollAssumption, EnrollInv PROVE EnrollmentHolds
<1> USE DEF EnrollInv, EnrollAssumption
<1>1. EnrollmentTypeOK
  <2>1. \A i \in 1 .. Len(announced) : announced[i].face \in Faces
    <3>1. announced \in Seq(Announcements)
      BY DEF EnrollTyped
    <3>2. \A i \in 1 .. Len(announced) : announced[i] \in Announcements
      BY <3>1, ElementOfSeq
    <3> QED BY <3>2 DEF Announcements
  <2>2. embeddings \in [Faces -> [Names -> 0 .. 2]]
    BY DEF EnrollTyped
  <2>3. knownFaces \subseteq Faces /\ escaped \subseteq Faces
    BY DEF EnrollTyped, Faces
  <2> QED BY <2>1, <2>2, <2>3 DEF EnrollmentTypeOK, EnrollTyped, HandlerStates, RecognizerStates
<1>2. PhotosCountOnce
  BY DEF PhotosCountOnce, EnrollTyped
<1>3. PhotosAreEmbedded
  <2> SUFFICES ASSUME recognizer.at = "listening", announced = <<>>, NEW f \in knownFaces, NEW p \in photoFiles[f]
               PROVE  \/ ~p.oneFace \/ p.name = Temporary
                      \/ embeddings[f][p.name] > 0
                      \/ <<f, p>> \in missed
                      \/ handler.at = "saved" /\ handler.face = f /\ handler.photo = p
    BY DEF PhotosAreEmbedded
  <2>1. Reached(f, p)
    BY DEF PhotosAreReached
  <2> QED BY <2>1 DEF Reached, IsSaved, IsSwept, IsAnnounced
<1>4. DeletedIsErased
  BY DEF DeletedIsErased, DeletedIsForgotten
<1> QED BY <1>1, <1>2, <1>3, <1>4 DEF EnrollmentHolds

\* Uploads, deletions, lost announcements and restarts leave what the recognizer
\* knows of a face in agreement with what was enrolled (enrollment.py, routes/recognizer.py).
THEOREM EnrollmentIsCorrect == EnrollmentSpec => []EnrollmentHolds
<1>1. EnrollmentInit => EnrollInv
  <2> SUFFICES ASSUME EnrollmentInit PROVE EnrollInv
    OBVIOUS
  <2>1. EnrollTyped
    BY EnrollAssumption, EnrollTypes DEF EnrollAssumption, EnrollmentInit, EnrollTyped
  <2>2. PhotoIsNew /\ PhotosAreReached /\ WritersAreKnown /\ DeletedIsForgotten
    BY EnrollAssumption, EnrollTypes DEF EnrollAssumption, EnrollmentInit, PhotoIsNew, PhotosAreReached, WritersAreKnown, DeletedIsForgotten
  <2> QED BY <2>1, <2>2 DEF EnrollInv
<1> QED BY <1>1, EnrollAssumption, EnrollStep, EnrollInvSuffices, PTL DEF EnrollmentSpec

-----------------------------------------------------------------------------
(* Recognition.                                                            *)

RecogTyped ==
    /\ stage \in [Jobs -> Stages]
    /\ poolQueue \in Seq(Jobs) /\ slots \in Nat /\ recogOn \in BOOLEAN
    /\ enrolled \in [People -> {"absent", "enabled", "disabled", "deleted"}]
    /\ loaded \in [Jobs -> SUBSET People] /\ current \in [Jobs -> SUBSET People]
    /\ outcome \in [Jobs -> Verdicts] /\ recognitions \in [CropEvents -> Verdicts]
    /\ publishedFor \in [CropEvents -> SUBSET Verdicts] /\ unrecorded \in SUBSET CropEvents

\* What is in the pool's queue has not started, and is there once.
QueueIsQueued ==
    /\ \A i \in DOMAIN poolQueue : stage[poolQueue[i]] = "queued"
    /\ \A i, k \in DOMAIN poolQueue : poolQueue[i] = poolQueue[k] => i = k

SlotsBalance == IsFiniteSet(Running) /\ SlotsAreCounted

\* A verdict is on its way to the table, in it, or the table refused it.
IsAnswered(e) == recognitions[e] # <<NoVerdict>> \/ e \in unrecorded
AnswersAreOnTheirWay ==
    /\ \A j \in Jobs : /\ stage[j] = "recording" => outcome[j] # <<NoVerdict>>
                       /\ stage[j] \in {"publishing", "done"} => IsAnswered(EventOf[j])
    /\ \A e \in CropEvents : publishedFor[e] # {} => IsAnswered(e)

\* What a delivery can still be matched with was enrolled since it arrived.
MatchesAreCurrent ==
    \A j \in Jobs :
        /\ stage[j] = "new" => outcome[j] = <<NoVerdict>>
        /\ stage[j] \notin {"new", "skipped"} => \A f \in People : enrolled[f] = "enabled" => f \in current[j]
        /\ stage[j] = "matching" => loaded[j] \subseteq current[j]
        /\ \A f \in People : outcome[j] = Matched(f) => f \in current[j]

RecogInv == RecogTyped /\ QueueIsQueued /\ SlotsBalance /\ AnswersAreOnTheirWay /\ MatchesAreCurrent

\* The verdicts differ from each other.
LEMMA VerdictFacts ==
    /\ \A x \in {NoVerdict, "unknown", "no_face", "error"} : <<x>> \in Verdicts
    /\ <<"error">> # <<NoVerdict>> /\ <<"unknown">> # <<NoVerdict>> /\ <<"no_face">> # <<NoVerdict>>
    /\ \A f \in People : Matched(f) \in Verdicts
    /\ \A f, x : Matched(f) # <<x>>
    /\ \A f, g : Matched(f) = Matched(g) => f = g
<1>1. \A f, x : Matched(f) # <<x>>
  <2> SUFFICES ASSUME NEW f, NEW x PROVE <<"matched", f>> # <<x>>
    BY DEF Matched
  <2>1. DOMAIN <<"matched", f>> # DOMAIN <<x>>
    <3>1. Len(<<"matched", f>>) = 2 /\ Len(<<x>>) = 1
      OBVIOUS
    <3> QED BY <3>1
  <2> QED BY <2>1
<1>2. \A f, g : Matched(f) = Matched(g) => f = g
  BY DEF Matched
<1> QED BY <1>1, <1>2 DEF Verdicts, NoVerdict

Busy == {"started", "matching", "recording", "publishing"}

\* A delivery that changes its stage is one more or one less at work.
LEMMA JobMoves ==
    ASSUME RecogTyped, IsFiniteSet(Running), NEW j \in Jobs, NEW st \in Stages, stage' = [stage EXCEPT ![j] = st]
    PROVE  /\ stage' \in [Jobs -> Stages] /\ IsFiniteSet(Running') /\ Cardinality(Running) \in Nat
           /\ Cardinality(Running') = Cardinality(Running) + (IF st \in Busy THEN 1 ELSE 0)
                                                           - (IF stage[j] \in Busy THEN 1 ELSE 0)
           /\ stage[j] \in Busy => Cardinality(Running) > 0
<1>1. Running = {i \in Jobs : stage[i] \in Busy} /\ Running' = {i \in Jobs : stage'[i] \in Busy}
  BY DEF Running, Busy
<1>2. Running' = IF st \in Busy THEN Running \cup {j} ELSE Running \ {j}
  BY <1>1 DEF RecogTyped
<1>3. j \in Running <=> stage[j] \in Busy
  BY <1>1
<1>4. Cardinality(Running) \in Nat /\ (j \in Running => Cardinality(Running) > 0)
  BY FS_CardinalityType, FS_EmptySet
<1>5. stage' \in [Jobs -> Stages]
  BY DEF RecogTyped
<1>6. /\ IsFiniteSet(Running \cup {j}) /\ IsFiniteSet(Running \ {j})
      /\ Cardinality(Running \cup {j}) = IF j \in Running THEN Cardinality(Running) ELSE Cardinality(Running) + 1
      /\ Cardinality(Running \ {j}) = IF j \in Running THEN Cardinality(Running) - 1 ELSE Cardinality(Running)
  BY FS_AddElement, FS_RemoveElement
<1> QED BY <1>2, <1>3, <1>4, <1>5, <1>6

\* A worker that goes on keeps its slot.
LEMMA WorkerGoesOn ==
    ASSUME RecogInv, NEW j \in Jobs, NEW st \in Busy, stage[j] \in Busy, stage' = [stage EXCEPT ![j] = st],
           UNCHANGED <<poolQueue, slots>>
    PROVE  stage' \in [Jobs -> Stages] /\ QueueIsQueued' /\ SlotsBalance'
<1>1. st \in Stages
  BY DEF Busy, Stages
<1>2. /\ stage' \in [Jobs -> Stages] /\ IsFiniteSet(Running') /\ Cardinality(Running) \in Nat
      /\ Cardinality(Running') = Cardinality(Running)
  <2>1. /\ stage' \in [Jobs -> Stages] /\ IsFiniteSet(Running') /\ Cardinality(Running) \in Nat
        /\ Cardinality(Running') = Cardinality(Running) + (IF st \in Busy THEN 1 ELSE 0)
                                                        - (IF stage[j] \in Busy THEN 1 ELSE 0)
    BY <1>1, JobMoves DEF RecogInv, SlotsBalance
  <2> QED BY <2>1
<1>3. QueueIsQueued'
  BY DEF RecogInv, RecogTyped, QueueIsQueued, Busy
<1>4. SlotsBalance'
  BY <1>2 DEF RecogInv, SlotsBalance, SlotsAreCounted
<1> QED BY <1>2, <1>3, <1>4

\* A worker that is through gives its slot back.
LEMMA WorkerFinishes ==
    ASSUME RecogInv, NEW j \in Jobs, stage[j] \in Busy, Finish(j), UNCHANGED poolQueue
    PROVE  /\ stage' = [stage EXCEPT ![j] = "done"]
           /\ stage' \in [Jobs -> Stages] /\ slots' \in Nat /\ QueueIsQueued' /\ SlotsBalance'
<1>1. "done" \in Stages /\ "done" \notin Busy /\ stage' = [stage EXCEPT ![j] = "done"] /\ slots' = slots + 1
  BY DEF Busy, Stages, Finish
<1>2. /\ stage' \in [Jobs -> Stages] /\ IsFiniteSet(Running') /\ Cardinality(Running) \in Nat
      /\ Cardinality(Running') = Cardinality(Running) - 1
  <2>1. /\ stage' \in [Jobs -> Stages] /\ IsFiniteSet(Running') /\ Cardinality(Running) \in Nat
        /\ Cardinality(Running') = Cardinality(Running) + (IF "done" \in Busy THEN 1 ELSE 0)
                                                        - (IF stage[j] \in Busy THEN 1 ELSE 0)
    BY <1>1, JobMoves DEF RecogInv, SlotsBalance
  <2> QED BY <1>1, <2>1
<1>3. QueueIsQueued'
  BY <1>1 DEF RecogInv, RecogTyped, QueueIsQueued, Busy
<1>4. slots \in Nat /\ Len(poolQueue) \in Nat
  BY LenProperties DEF RecogInv, RecogTyped
<1>5. SlotsBalance'
  BY <1>1, <1>2, <1>4 DEF RecogInv, SlotsBalance, SlotsAreCounted
<1> QED BY <1>1, <1>2, <1>3, <1>4, <1>5

LEMMA RecogStep == ASSUME RecogAssumption, RecogInv, [RecognizerNext]_recogVars PROVE RecogInv'
<1> USE DEF RecogInv
<1>0. \A j \in Jobs : EventOf[j] \in CropEvents
  BY DEF CropEvents
<1>1. ASSUME NEW f \in People, EditFace(f) PROVE RecogInv'
  <2>1. RecogTyped'
    BY <1>1 DEF EditFace, RecogTyped
  <2>2. QueueIsQueued' /\ SlotsBalance'
    BY <1>1 DEF EditFace, QueueIsQueued, SlotsBalance, SlotsAreCounted, Running, PoolSlots
  <2>3. AnswersAreOnTheirWay'
    BY <1>1 DEF EditFace, AnswersAreOnTheirWay, IsAnswered
  <2>4. MatchesAreCurrent'
    BY <1>1 DEF EditFace, RecogTyped, MatchesAreCurrent
  <2> QED BY <2>1, <2>2, <2>3, <2>4
<1>2. CASE Reconfigure
  BY <1>2 DEF Reconfigure, RecogTyped, QueueIsQueued, SlotsBalance, SlotsAreCounted, Running, PoolSlots,
              AnswersAreOnTheirWay, IsAnswered, MatchesAreCurrent
<1>3. ASSUME NEW j \in Jobs, Skip(j) PROVE RecogInv'
  <2>1. stage[j] = "new" /\ stage' = [stage EXCEPT ![j] = "skipped"] /\ "skipped" \in Stages /\ {"new", "skipped"} \cap Busy = {}
    BY <1>3 DEF Skip, Stages, Busy
  <2>2. stage' \in [Jobs -> Stages] /\ IsFiniteSet(Running') /\ Cardinality(Running') = Cardinality(Running)
    <3>1. /\ stage' \in [Jobs -> Stages] /\ IsFiniteSet(Running') /\ Cardinality(Running) \in Nat
          /\ Cardinality(Running') = Cardinality(Running) + (IF "skipped" \in Busy THEN 1 ELSE 0)
                                                          - (IF stage[j] \in Busy THEN 1 ELSE 0)
      BY <2>1, JobMoves DEF SlotsBalance
    <3> QED BY <2>1, <3>1
  <2>3. RecogTyped'
    BY <1>3, <2>2 DEF Skip, RecogTyped
  <2>4. QueueIsQueued'
    BY <1>3, <2>1 DEF Skip, RecogTyped, QueueIsQueued
  <2>5. SlotsBalance'
    BY <1>3, <2>2 DEF Skip, SlotsBalance, SlotsAreCounted
  <2>6. AnswersAreOnTheirWay'
    BY <1>3 DEF Skip, RecogTyped, AnswersAreOnTheirWay, IsAnswered
  <2>7. MatchesAreCurrent'
    BY <1>3 DEF Skip, RecogTyped, MatchesAreCurrent
  <2> QED BY <2>3, <2>4, <2>5, <2>6, <2>7
<1>4. ASSUME NEW j \in Jobs, Dispatch(j) PROVE RecogInv'
  <2>1. /\ stage[j] = "new"
        /\ \/ /\ slots > 0 /\ slots' = slots - 1 /\ poolQueue' = Append(poolQueue, j)
              /\ stage' = [stage EXCEPT ![j] = "queued"]
           \/ stage' = [stage EXCEPT ![j] = "dropped"] /\ UNCHANGED <<slots, poolQueue>>
        /\ current' = [current EXCEPT ![j] = {f \in People : enrolled[f] = "enabled"}]
        /\ UNCHANGED <<recogOn, enrolled, loaded, outcome, recognitions, publishedFor, unrecorded>>
    BY <1>4 DEF Dispatch
  <2>2. {"queued", "dropped"} \subseteq Stages /\ {"new", "queued", "dropped"} \cap Busy = {}
    BY DEF Stages, Busy
  <2>3. stage' \in [Jobs -> Stages] /\ IsFiniteSet(Running') /\ Cardinality(Running') = Cardinality(Running)
    BY <2>1, <2>2, JobMoves DEF SlotsBalance
  <2>4. /\ Append(poolQueue, j) \in Seq(Jobs) /\ Len(Append(poolQueue, j)) = Len(poolQueue) + 1
        /\ Len(poolQueue) \in Nat /\ DOMAIN poolQueue = 1 .. Len(poolQueue)
        /\ DOMAIN Append(poolQueue, j) = 1 .. Len(poolQueue) + 1
        /\ \A i \in 1 .. Len(poolQueue) : Append(poolQueue, j)[i] = poolQueue[i]
        /\ Append(poolQueue, j)[Len(poolQueue) + 1] = j
    BY AppendProperties, LenProperties DEF RecogTyped
  <2>5. RecogTyped'
    <3>1. slots' \in Nat
      BY <2>1 DEF RecogTyped
    <3>2. poolQueue' \in Seq(Jobs)
      BY <2>1, <2>4 DEF RecogTyped
    <3> QED BY <2>1, <2>3, <3>1, <3>2 DEF RecogTyped
  <2>6. QueueIsQueued'
    <3>1. \A i \in DOMAIN poolQueue : poolQueue[i] # j /\ poolQueue[i] \in Jobs
      BY <2>1, <2>4, ElementOfSeq DEF QueueIsQueued, RecogTyped
    <3>2. CASE poolQueue' = Append(poolQueue, j) /\ stage' = [stage EXCEPT ![j] = "queued"]
      BY <3>1, <3>2, <2>4 DEF QueueIsQueued, RecogTyped
    <3>3. CASE stage' = [stage EXCEPT ![j] = "dropped"] /\ UNCHANGED poolQueue
      BY <3>1, <3>3 DEF QueueIsQueued, RecogTyped
    <3> QED BY <2>1, <3>2, <3>3
  <2>7. SlotsBalance'
    <3>1. Cardinality(Running) \in Nat /\ slots \in Nat
      BY FS_CardinalityType DEF SlotsBalance, RecogTyped
    <3> QED BY <2>1, <2>3, <2>4, <3>1 DEF SlotsBalance, SlotsAreCounted
  <2>8. AnswersAreOnTheirWay'
    BY <2>1 DEF RecogTyped, AnswersAreOnTheirWay, IsAnswered
  <2>9. MatchesAreCurrent'
    BY <2>1, VerdictFacts DEF RecogTyped, MatchesAreCurrent
  <2> QED BY <2>5, <2>6, <2>7, <2>8, <2>9
<1>5. CASE StartJob
  <2> DEFINE j == Head(poolQueue)
  <2>1. /\ j \in Jobs /\ j = poolQueue[1]
        /\ Tail(poolQueue) \in Seq(Jobs) /\ Len(Tail(poolQueue)) = Len(poolQueue) - 1
        /\ DOMAIN Tail(poolQueue) = 1 .. Len(poolQueue) - 1
        /\ \A i \in 1 .. Len(poolQueue) - 1 : Tail(poolQueue)[i] = poolQueue[i + 1]
        /\ Len(poolQueue) \in Nat /\ 1 <= Len(poolQueue) /\ DOMAIN poolQueue = 1 .. Len(poolQueue)
    <3>1. poolQueue \in Seq(Jobs) /\ poolQueue # <<>>
      BY <1>5 DEF StartJob, RecogTyped
    <3> QED BY <3>1, TailEffect, HeadTailProperties
  <2>2. stage[j] = "queued" /\ stage' = [stage EXCEPT ![j] = "started"] /\ poolQueue' = Tail(poolQueue)
        /\ UNCHANGED <<slots, recogOn, enrolled, loaded, outcome, recognitions, publishedFor, current, unrecorded>>
    BY <1>5, <2>1 DEF StartJob, QueueIsQueued
  <2> HIDE DEF j
  <2>3. /\ stage' \in [Jobs -> Stages] /\ IsFiniteSet(Running') /\ Cardinality(Running) \in Nat
        /\ Cardinality(Running') = Cardinality(Running) + 1
    <3>0. "started" \in Stages /\ "started" \in Busy /\ "queued" \notin Busy
      BY DEF Stages, Busy
    <3>1. /\ stage' \in [Jobs -> Stages] /\ IsFiniteSet(Running') /\ Cardinality(Running) \in Nat
          /\ Cardinality(Running') = Cardinality(Running) + (IF "started" \in Busy THEN 1 ELSE 0)
                                                          - (IF stage[j] \in Busy THEN 1 ELSE 0)
      BY <2>1, <2>2, <3>0, JobMoves DEF SlotsBalance
    <3> QED BY <2>2, <3>0, <3>1
  <2>4. RecogTyped'
    BY <2>1, <2>2, <2>3 DEF RecogTyped
  <2>5. QueueIsQueued'
    <3>1. \A i \in 1 .. Len(poolQueue) - 1 : poolQueue[i + 1] # j /\ poolQueue[i + 1] \in Jobs /\ stage[poolQueue[i + 1]] = "queued"
      <4> SUFFICES ASSUME NEW i \in 1 .. Len(poolQueue) - 1
                   PROVE  poolQueue[i + 1] # j /\ poolQueue[i + 1] \in Jobs /\ stage[poolQueue[i + 1]] = "queued"
        OBVIOUS
      <4>1. i + 1 \in DOMAIN poolQueue /\ 1 \in DOMAIN poolQueue /\ i + 1 # 1
        BY <2>1
      <4> QED BY <4>1, <2>1, ElementOfSeq DEF QueueIsQueued, RecogTyped
    <3>2. \A i, k \in 1 .. Len(poolQueue) - 1 : poolQueue[i + 1] = poolQueue[k + 1] => i = k
      <4> SUFFICES ASSUME NEW i \in 1 .. Len(poolQueue) - 1, NEW k \in 1 .. Len(poolQueue) - 1,
                          poolQueue[i + 1] = poolQueue[k + 1]
                   PROVE  i = k
        OBVIOUS
      <4>1. i + 1 \in DOMAIN poolQueue /\ k + 1 \in DOMAIN poolQueue
        BY <2>1
      <4> QED BY <4>1, <2>1 DEF QueueIsQueued
    <3> QED BY <2>1, <2>2, <3>1, <3>2 DEF QueueIsQueued, RecogTyped
  <2>6. SlotsBalance'
    BY <2>1, <2>2, <2>3 DEF SlotsBalance, SlotsAreCounted, RecogTyped
  <2>7. AnswersAreOnTheirWay'
    BY <2>1, <2>2 DEF RecogTyped, AnswersAreOnTheirWay, IsAnswered
  <2>8. MatchesAreCurrent'
    BY <2>1, <2>2 DEF RecogTyped, MatchesAreCurrent
  <2> QED BY <2>4, <2>5, <2>6, <2>7, <2>8
<1>6. ASSUME NEW j \in Jobs, Refuse(j) \/ SnapshotMissing(j) \/ JobFails(j) PROVE RecogInv'
  <2>1. /\ stage[j] \in Busy /\ Finish(j)
        /\ UNCHANGED <<poolQueue, recogOn, enrolled, loaded, publishedFor, current>>
        /\ outcome' = outcome \/ outcome' = [outcome EXCEPT ![j] = <<"error">>]
        /\ \/ unrecorded' = unrecorded \cup {EventOf[j]} /\ recognitions' = recognitions
           \/ unrecorded' = unrecorded /\ recognitions' = [recognitions EXCEPT ![EventOf[j]] = <<"error">>]
    BY <1>6 DEF Refuse, SnapshotMissing, JobFails, InsertRecognition, Busy
  <2>2. /\ stage' = [stage EXCEPT ![j] = "done"] /\ stage' \in [Jobs -> Stages] /\ slots' \in Nat
        /\ QueueIsQueued' /\ SlotsBalance'
    BY <2>1, WorkerFinishes
  <2>3. RecogTyped'
    <3>1. <<"error">> \in Verdicts /\ EventOf[j] \in CropEvents
      BY <1>0, VerdictFacts
    <3>2. outcome' \in [Jobs -> Verdicts]
      BY <2>1, <3>1 DEF RecogTyped
    <3>3. recognitions' \in [CropEvents -> Verdicts] /\ unrecorded' \in SUBSET CropEvents
      BY <2>1, <3>1 DEF RecogTyped
    <3> QED BY <2>1, <2>2, <3>2, <3>3 DEF RecogTyped
  <2>4. AnswersAreOnTheirWay'
    BY <2>1, <2>2, <1>0, VerdictFacts DEF RecogTyped, AnswersAreOnTheirWay, IsAnswered
  <2>5. MatchesAreCurrent'
    BY <2>1, <2>2, VerdictFacts DEF RecogTyped, MatchesAreCurrent, Busy
  <2> QED BY <2>2, <2>3, <2>4, <2>5
<1>7. ASSUME NEW j \in Jobs, ReadFaces(j) PROVE RecogInv'
  <2>1. /\ stage[j] \in Busy /\ "matching" \in Busy /\ stage' = [stage EXCEPT ![j] = "matching"]
        /\ loaded' = [loaded EXCEPT ![j] = {f \in People : enrolled[f] = "enabled"}]
        /\ UNCHANGED <<poolQueue, slots, recogOn, enrolled, outcome, recognitions, publishedFor, current, unrecorded>>
    BY <1>7 DEF ReadFaces, ListEnabledFaces, Busy
  <2>2. stage' \in [Jobs -> Stages] /\ QueueIsQueued' /\ SlotsBalance'
    BY <2>1, WorkerGoesOn
  <2>3. RecogTyped'
    BY <2>1, <2>2 DEF RecogTyped
  <2>4. AnswersAreOnTheirWay'
    BY <2>1 DEF RecogTyped, AnswersAreOnTheirWay, IsAnswered
  <2>5. MatchesAreCurrent'
    BY <2>1 DEF RecogTyped, MatchesAreCurrent, Busy
  <2> QED BY <2>2, <2>3, <2>4, <2>5
<1>8. ASSUME NEW j \in Jobs, Match(j) PROVE RecogInv'
  <2>1. PICK v \in Verdict(loaded[j]) : outcome' = [outcome EXCEPT ![j] = v]
    BY <1>8 DEF Match
  <2>2. /\ stage[j] = "matching" /\ stage[j] \in Busy /\ "recording" \in Busy /\ stage' = [stage EXCEPT ![j] = "recording"]
        /\ UNCHANGED <<poolQueue, slots, recogOn, enrolled, loaded, recognitions, publishedFor, current, unrecorded>>
    BY <1>8 DEF Match, Busy
  <2>3. v \in Verdicts /\ v # <<NoVerdict>> /\ \A f \in People : v = Matched(f) => f \in loaded[j]
    BY VerdictFacts, SMTT(20) DEF Verdict, RecogTyped
  <2>4. stage' \in [Jobs -> Stages] /\ QueueIsQueued' /\ SlotsBalance'
    BY <2>2, WorkerGoesOn
  <2>5. RecogTyped'
    BY <2>1, <2>2, <2>3, <2>4 DEF RecogTyped
  <2>6. AnswersAreOnTheirWay'
    BY <2>1, <2>2, <2>3 DEF RecogTyped, AnswersAreOnTheirWay, IsAnswered
  <2>7. MatchesAreCurrent'
    BY <2>1, <2>2, <2>3 DEF RecogTyped, MatchesAreCurrent
  <2> QED BY <2>4, <2>5, <2>6, <2>7
<1>9. ASSUME NEW j \in Jobs, RecordOutcome(j) PROVE RecogInv'
  <2>1. /\ stage[j] = "recording" /\ stage[j] \in Busy /\ "publishing" \in Busy /\ stage' = [stage EXCEPT ![j] = "publishing"]
        /\ \/ unrecorded' = unrecorded \cup {EventOf[j]} /\ recognitions' = recognitions
           \/ unrecorded' = unrecorded /\ recognitions' = [recognitions EXCEPT ![EventOf[j]] = outcome[j]]
        /\ UNCHANGED <<poolQueue, slots, recogOn, enrolled, loaded, outcome, publishedFor, current>>
    BY <1>9 DEF RecordOutcome, InsertRecognition, Busy
  <2>2. stage' \in [Jobs -> Stages] /\ QueueIsQueued' /\ SlotsBalance'
    BY <2>1, WorkerGoesOn
  <2>3. RecogTyped'
    BY <2>1, <2>2, <1>0 DEF RecogTyped
  <2>4. AnswersAreOnTheirWay'
    BY <2>1, <1>0 DEF RecogTyped, AnswersAreOnTheirWay, IsAnswered
  <2>5. MatchesAreCurrent'
    BY <2>1 DEF RecogTyped, MatchesAreCurrent
  <2> QED BY <2>2, <2>3, <2>4, <2>5
<1>10. ASSUME NEW j \in Jobs, PublishOutcome(j) PROVE RecogInv'
  <2>1. /\ stage[j] = "publishing" /\ stage[j] \in Busy /\ Finish(j)
        /\ publishedFor' = publishedFor \/ publishedFor' = [publishedFor EXCEPT ![EventOf[j]] = @ \cup {outcome[j]}]
        /\ UNCHANGED <<poolQueue, recogOn, enrolled, loaded, outcome, recognitions, current, unrecorded>>
    BY <1>10 DEF PublishOutcome, Busy
  <2>2. /\ stage' = [stage EXCEPT ![j] = "done"] /\ stage' \in [Jobs -> Stages] /\ slots' \in Nat
        /\ QueueIsQueued' /\ SlotsBalance'
    BY <2>1, WorkerFinishes
  <2>3. RecogTyped'
    BY <2>1, <2>2, <1>0 DEF RecogTyped
  <2>4. AnswersAreOnTheirWay'
    BY <2>1, <2>2, <1>0 DEF RecogTyped, AnswersAreOnTheirWay, IsAnswered
  <2>5. MatchesAreCurrent'
    BY <2>1, <2>2 DEF RecogTyped, MatchesAreCurrent
  <2> QED BY <2>2, <2>3, <2>4, <2>5
<1>11. CASE UNCHANGED recogVars
  BY <1>11 DEF recogVars, RecogTyped, QueueIsQueued, SlotsBalance, SlotsAreCounted, Running, PoolSlots,
               AnswersAreOnTheirWay, IsAnswered, MatchesAreCurrent
<1> QED
  BY <1>1, <1>2, <1>3, <1>4, <1>5, <1>6, <1>7, <1>8, <1>9, <1>10, <1>11 DEF RecognizerNext

\* Deliveries, refusals, failures and edits of the faces leave the pool's slots, the
\* table and the channel in agreement, for any deliveries and pool (recognizer/src/main.py).
THEOREM RecognitionIsCorrect == RecognizerSpec => []RecognizerHolds
<1>1. RecognizerInit => RecogInv
  <2> SUFFICES ASSUME RecognizerInit PROVE RecogInv
    OBVIOUS
  <2>1. RecogTyped
    BY RecogAssumption, VerdictFacts DEF RecogAssumption, RecognizerInit, RecogTyped, Stages, PoolSlots
  <2>2. QueueIsQueued
    BY DEF RecognizerInit, QueueIsQueued
  <2>3. SlotsBalance
    <3>1. Running = {}
      BY DEF RecognizerInit, Running
    <3> QED BY <3>1, FS_EmptySet, RecogAssumption DEF RecogAssumption, RecognizerInit, SlotsBalance, SlotsAreCounted, PoolSlots
  <2>4. AnswersAreOnTheirWay
    BY DEF RecognizerInit, AnswersAreOnTheirWay
  <2>5. MatchesAreCurrent
    BY VerdictFacts DEF RecognizerInit, MatchesAreCurrent
  <2> QED BY <2>1, <2>2, <2>3, <2>4, <2>5 DEF RecogInv
<1>2. RecogInv => RecognizerHolds
  <2> SUFFICES ASSUME RecogInv PROVE RecognizerHolds
    OBVIOUS
  <2>1. slots \in 0 .. PoolSlots
    <3>1. Cardinality(Running) \in Nat /\ Len(poolQueue) \in Nat /\ slots \in Nat
      BY FS_CardinalityType, LenProperties DEF RecogInv, SlotsBalance, RecogTyped
    <3> QED BY <3>1 DEF RecogInv, SlotsBalance, SlotsAreCounted
  <2>2. RecognizerTypeOK
    BY <2>1 DEF RecogInv, RecogTyped, RecognizerTypeOK
  <2> QED
    BY <2>2 DEF RecogInv, SlotsBalance, AnswersAreOnTheirWay, IsAnswered, AnswersAreRecorded, MatchesAreCurrent,
                OnlyEnrolledAreNamed, RecognizerHolds
<1> QED BY <1>1, <1>2, RecogAssumption, RecogStep, PTL DEF RecognizerSpec

-----------------------------------------------------------------------------
(* Clips.                                                                  *)

WorkerPlaces == {"free", "sleeping", "writing", "failing", "inserting"}
ClipTasks == [token : Tokens, ts : Nat]
WorkerStates == [at : WorkerPlaces, token : Tokens, ts : Nat, until : Nat, segs : SUBSET Int, ran : SUBSET Int]
ClipRows == [here : BOOLEAN, path : BOOLEAN, error : BOOLEAN, ts : Nat, at : Nat, segs : SUBSET Int, ran : SUBSET Int]
FfmpegStates == [state : {"up", "waiting", "off"}, since : Nat, until : Nat, delay : Backoff .. MaxBackoff, wake : Nat]

RingTyped ==
    /\ second \in 1 .. MaxSecond /\ slot \in Slots /\ ring \in [Slots -> 0 .. MaxSecond]
    /\ ffmpeg \in FfmpegStates
PoolTyped ==
    /\ tasks \in Seq(ClipTasks) /\ worker \in [Workers -> WorkerStates]
    /\ clipFile \in [Tokens -> {"none", "partial", "whole"}] /\ clipRow \in [Tokens -> ClipRows]
    /\ spoiled \in SUBSET Tokens

\* The last second ffmpeg has seen, and the file it completed `i` files ago.
LastSeen == IF ffmpeg.state = "up" THEN second ELSE ffmpeg.until
FileBack(s, i) == IF s >= i THEN s - i ELSE s - i + Segments

\* Up to a turn of the ring, every segment of the present run of ffmpeg is in it.
RingHoldsTheRun ==
    /\ 1 <= ffmpeg.since /\ ffmpeg.since <= LastSeen /\ LastSeen <= second
    /\ ffmpeg.state = "up" => ffmpeg.until = 0
    /\ \A i \in 1 .. Segments - 1 : i <= LastSeen - ffmpeg.since => ring[FileBack(slot, i)] = LastSeen - i + 1

RingInv == RingTyped /\ RingHoldsTheRun

\* What was cut in time is complete.
IsComplete(cut, ts, at) ==
    at <= ts - PreRoll + Segments - 1 => (ts - PreRoll + 1 .. ts + PostRoll) \intersect cut.ran \subseteq cut.segs

IsCutting(w, t) == worker[w].token = t /\ worker[w].at \in {"writing", "failing"}
CutsAreComplete ==
    /\ \A w \in Workers : worker[w].at = "sleeping" => worker[w].until >= worker[w].ts + PostRoll + 1
    /\ \A w \in Workers : worker[w].at \in {"writing", "inserting"} => IsComplete(worker[w], worker[w].ts, worker[w].until)
    /\ \A t \in Tokens : clipRow[t].path /\ ~clipRow[t].error => IsComplete(clipRow[t], clipRow[t].ts, clipRow[t].at)

\* A file with a row, or about to have one, is whole, unless it is cut again or
\* its tasks were not alone.
WorkersAreAlone ==
    \A v, w \in Workers :
        v # w /\ worker[v].at # "free" /\ worker[w].at # "free" /\ worker[v].token = worker[w].token =>
            worker[v].token \in spoiled
IsShownOrNearly(t) ==
    \/ clipRow[t].path /\ ~clipRow[t].error
    \/ \E w \in Workers : worker[w].at = "inserting" /\ worker[w].token = t
FilesAreWhole ==
    \A t \in Tokens : IsShownOrNearly(t) =>
        clipFile[t] = "whole" \/ t \in spoiled \/ \E w \in Workers : IsCutting(w, t)

PoolInv == PoolTyped /\ CutsAreComplete /\ WorkersAreAlone /\ FilesAreWhole

LEMMA NextFile ==
    ASSUME Segments \in Nat \ {0}, NEW s \in 0 .. Segments - 1
    PROVE  (s + 1) % Segments = IF s + 1 = Segments THEN 0 ELSE s + 1
<1>1. CASE s + 1 = Segments
  BY <1>1
<1>2. CASE s + 1 # Segments
  <2>1. s + 1 \in 0 .. Segments - 1
    BY <1>2
  <2> QED BY <2>1, <1>2
<1> QED BY <1>1, <1>2

\* The ring moves with the time and with ffmpeg.
LEMMA RingMoves ==
    ASSUME ClipperAssumption, RingInv,
           NextSecond \/ FfmpegExits \/ FfmpegRestarts \/ (\E on \in BOOLEAN : ReloadStops(on))
             \/ ReloadStarts \/ ClipperDies \/ UNCHANGED ringVars
    PROVE  RingInv'
<1> USE DEF RingInv, ClipperAssumption, Slots
<1>0. /\ second \in 1 .. MaxSecond /\ MaxSecond \in Nat /\ second \in Nat /\ slot \in 0 .. Segments - 1
      /\ ring \in [0 .. Segments - 1 -> 0 .. MaxSecond] /\ ffmpeg \in FfmpegStates
      /\ ffmpeg.since \in Nat /\ ffmpeg.until \in Nat /\ ffmpeg.wake \in Nat
      /\ ffmpeg.delay \in Backoff .. MaxBackoff /\ ffmpeg.state \in {"up", "waiting", "off"}
  BY DEF RingTyped, MaxSecond, FfmpegStates
<1>1. ASSUME NextSecond, ffmpeg.state = "up" PROVE RingInv'
  <2>0. /\ second' = second + 1 /\ second' \in 1 .. MaxSecond /\ ffmpeg' = ffmpeg
        /\ slot' = (IF slot + 1 = Segments THEN 0 ELSE slot + 1)
        /\ ring' = [ring EXCEPT ![slot] = second', ![slot'] = 0]
    BY <1>0, <1>1, NextFile DEF NextSecond
  <2>1. slot' \in 0 .. Segments - 1
    BY <1>0, <2>0
  <2>a. ring' \in [0 .. Segments - 1 -> 0 .. MaxSecond]
    <3>1. second' \in 0 .. MaxSecond /\ 0 \in 0 .. MaxSecond
      BY <1>0, <2>0
    <3>2. [ring EXCEPT ![slot] = second'] \in [0 .. Segments - 1 -> 0 .. MaxSecond]
      BY <1>0, <3>1
    <3>3. [[ring EXCEPT ![slot] = second'] EXCEPT ![slot'] = 0] \in [0 .. Segments - 1 -> 0 .. MaxSecond]
      BY <2>1, <3>1, <3>2
    <3> QED BY <2>0, <3>3
  <2>2. RingTyped'
    BY <1>0, <2>0, <2>1, <2>a DEF RingTyped, MaxSecond
  <2>3. LastSeen = second /\ LastSeen' = second + 1
    BY <1>1, <2>0 DEF LastSeen
  <2>4. ASSUME NEW i \in 1 .. Segments - 1, i <= LastSeen' - ffmpeg.since
        PROVE  ring'[FileBack(slot', i)] = LastSeen' - i + 1
    <3>1. CASE i = 1
      <4>1. FileBack(slot', i) = slot /\ slot # slot'
        BY <1>0, <2>0, <3>1 DEF FileBack
      <4> QED BY <1>0, <2>0, <2>3, <3>1, <4>1
    <3>2. CASE i > 1
      <4>1. /\ FileBack(slot', i) = FileBack(slot, i - 1) /\ FileBack(slot, i - 1) \in 0 .. Segments - 1
            /\ FileBack(slot, i - 1) # slot /\ FileBack(slot, i - 1) # slot'
        BY <1>0, <2>0, <3>2 DEF FileBack
      <4>2. i - 1 \in 1 .. Segments - 1 /\ i - 1 <= LastSeen - ffmpeg.since
        BY <1>0, <2>3, <2>4, <3>2
      <4>3. ring[FileBack(slot, i - 1)] = LastSeen - (i - 1) + 1
        BY <4>2 DEF RingHoldsTheRun
      <4>4. ring'[FileBack(slot, i - 1)] = ring[FileBack(slot, i - 1)]
        BY <1>0, <2>0, <2>1, <4>1
      <4> QED BY <1>0, <2>3, <4>1, <4>3, <4>4
    <3> QED BY <3>1, <3>2
  <2>b. 1 <= ffmpeg.since /\ ffmpeg.since <= LastSeen /\ ffmpeg.until = 0
    BY <1>1 DEF RingHoldsTheRun
  <2>5. RingHoldsTheRun'
    <3>1. \A i \in 1 .. Segments - 1 : i <= LastSeen' - ffmpeg'.since => ring'[FileBack(slot', i)] = LastSeen' - i + 1
      BY <2>0, <2>4
    <3>2. /\ 1 <= ffmpeg'.since /\ ffmpeg'.since <= LastSeen' /\ LastSeen' <= second'
          /\ ffmpeg'.state = "up" => ffmpeg'.until = 0
      BY <1>0, <2>0, <2>3, <2>b
    <3> QED BY <3>1, <3>2 DEF RingHoldsTheRun
  <2> QED BY <2>2, <2>5
<1>2. ASSUME second' \in second .. MaxSecond, ring' = ring, slot' = slot, LastSeen' = LastSeen,
             ffmpeg' \in FfmpegStates, ffmpeg'.since = ffmpeg.since, ffmpeg'.state = "up" => ffmpeg'.until = 0
      PROVE  RingInv'
  <2>1. RingTyped'
    BY <1>0, <1>2 DEF RingTyped, MaxSecond
  <2>2. FileBack(slot', 1) = FileBack(slot', 1) /\ \A i : FileBack(slot', i) = FileBack(slot, i)
    BY <1>2 DEF FileBack
  <2>3. LastSeen \in Nat
    BY <1>0 DEF LastSeen
  <2>4. RingHoldsTheRun'
    BY <1>0, <1>2, <2>2, <2>3 DEF RingHoldsTheRun
  <2> QED BY <2>1, <2>4
<1>3. ASSUME NextSecond, ffmpeg.state # "up" PROVE RingInv'
  <2>1. /\ second' \in second .. MaxSecond /\ ring' = ring /\ slot' = slot /\ ffmpeg' = ffmpeg
    BY <1>0, <1>3 DEF NextSecond
  <2>2. LastSeen' = LastSeen
    BY <1>3, <2>1 DEF LastSeen
  <2> QED BY <1>0, <1>2, <1>3, <2>1, <2>2
<1>4. ASSUME FfmpegExits PROVE RingInv'
  <2>1. /\ second' \in second .. MaxSecond /\ ring' = ring /\ slot' = slot
        /\ ffmpeg'.since = ffmpeg.since /\ ffmpeg'.state = "waiting" /\ ffmpeg'.until = second
        /\ ffmpeg' \in FfmpegStates /\ ffmpeg.state = "up"
    <3>1. Backoff \in Backoff .. MaxBackoff
      OBVIOUS
    <3>2. /\ second + ffmpeg.delay \in Nat /\ second + Backoff \in Nat
      BY <1>0
    <3> DEFINE delay == IF second - ffmpeg.since >= StableRun THEN Backoff ELSE ffmpeg.delay
    <3>3. delay \in Backoff .. MaxBackoff /\ second + delay \in Nat
      BY <1>0, <3>1, <3>2
    <3>4. /\ ffmpeg' = [ffmpeg EXCEPT !.state = "waiting", !.until = second, !.delay = delay, !.wake = second + delay]
          /\ second' = second /\ ring' = ring /\ slot' = slot /\ ffmpeg.state = "up"
      BY <1>4 DEF FfmpegExits
    <3> HIDE DEF delay
    <3>5. ffmpeg' \in FfmpegStates
      BY <1>0, <3>3, <3>4 DEF FfmpegStates
    <3>6. ffmpeg'.since = ffmpeg.since /\ ffmpeg'.state = "waiting" /\ ffmpeg'.until = second
      BY <1>0, <3>4 DEF FfmpegStates
    <3> QED BY <1>0, <3>4, <3>5, <3>6
  <2>2. LastSeen' = LastSeen
    BY <1>0, <2>1 DEF LastSeen
  <2> QED BY <1>2, <2>1, <2>2
<1>5. ASSUME NEW on \in BOOLEAN, ReloadStops(on) PROVE RingInv'
  <2>1. /\ second' \in second .. MaxSecond /\ ring' = ring /\ slot' = slot
        /\ ffmpeg'.since = ffmpeg.since /\ ffmpeg'.state = "off"
        /\ ffmpeg'.until = (IF ffmpeg.until = 0 THEN second ELSE ffmpeg.until)
        /\ ffmpeg' \in FfmpegStates
    <3> DEFINE until == IF ffmpeg.until = 0 THEN second ELSE ffmpeg.until
    <3>1. until \in Nat
      BY <1>0
    <3>2. /\ ffmpeg' = [ffmpeg EXCEPT !.state = "off", !.until = until]
          /\ second' = second /\ ring' = ring /\ slot' = slot
      BY <1>5 DEF ReloadStops
    <3>3. ffmpeg' \in FfmpegStates /\ ffmpeg'.since = ffmpeg.since /\ ffmpeg'.state = "off" /\ ffmpeg'.until = until
      <4> HIDE DEF until
      <4> QED BY <1>0, <3>1, <3>2 DEF FfmpegStates
    <3> QED BY <1>0, <3>2, <3>3
  <2>2. 1 <= LastSeen /\ (ffmpeg.state = "up" => ffmpeg.until = 0)
    BY <1>0 DEF RingHoldsTheRun, LastSeen
  <2>3. LastSeen' = LastSeen
    BY <1>0, <2>1, <2>2 DEF LastSeen
  <2> QED BY <1>2, <2>1, <2>3
<1>6. ASSUME second' = second, ffmpeg' \in FfmpegStates, ffmpeg'.state = "up", ffmpeg'.since = second,
             ffmpeg'.until = 0, Launched
      PROVE  RingInv'
  <2>1. slot' = 0 /\ slot' \in 0 .. Segments - 1 /\ ring' \in [0 .. Segments - 1 -> 0 .. MaxSecond]
    BY <1>0, <1>6 DEF Launched
  <2>2. LastSeen' = second
    BY <1>6 DEF LastSeen
  <2> QED BY <1>0, <1>6, <2>1, <2>2 DEF RingTyped, RingHoldsTheRun, MaxSecond
<1>7. ASSUME FfmpegRestarts PROVE RingInv'
  <2>1. (IF ffmpeg.delay * 2 > MaxBackoff THEN MaxBackoff ELSE ffmpeg.delay * 2) \in Backoff .. MaxBackoff
    BY <1>0
  <2>2. ffmpeg' \in FfmpegStates /\ ffmpeg'.state = "up" /\ ffmpeg'.since = second /\ ffmpeg'.until = 0
    BY <1>0, <1>7, <2>1 DEF FfmpegRestarts, FfmpegStates
  <2> QED BY <1>6, <1>7, <2>2 DEF FfmpegRestarts
<1>8. ASSUME ReloadStarts \/ ClipperDies PROVE RingInv'
  <2>1. ffmpeg' \in FfmpegStates /\ ffmpeg'.state = "up" /\ ffmpeg'.since = second /\ ffmpeg'.until = 0
    BY <1>0, <1>8 DEF ReloadStarts, ClipperDies, FfmpegStates
  <2> QED BY <1>6, <1>8, <2>1 DEF ReloadStarts, ClipperDies
<1>9. ASSUME UNCHANGED ringVars PROVE RingInv'
  <2>1. /\ second' \in second .. MaxSecond /\ second' = second /\ ring' = ring /\ slot' = slot /\ ffmpeg' = ffmpeg
    BY <1>0, <1>9 DEF ringVars
  <2>2. LastSeen' = LastSeen /\ (ffmpeg'.state = "up" => ffmpeg'.until = 0)
    BY <2>1 DEF LastSeen, RingHoldsTheRun
  <2> QED BY <1>0, <1>2, <2>1, <2>2
<1> QED BY <1>1, <1>3, <1>4, <1>5, <1>7, <1>8, <1>9

LEMMA FreeIsTyped ==
    ASSUME ClipperAssumption
    PROVE  Free \in WorkerStates /\ Free.at = "free" /\ SomeToken \in Tokens
<1>1. SomeToken \in Tokens
  BY DEF ClipperAssumption, SomeToken
<1> QED BY <1>1 DEF Free, WorkerStates, WorkerPlaces

\* What is gathered in time holds every second its window asks for.
LEMMA GatheredIsComplete ==
    ASSUME ClipperAssumption, RingInv, NEW ts \in Nat, NEW at \in Nat,
           second = at, at >= ts + PostRoll + 1, at <= ts - PreRoll + Segments - 1
    PROVE  (ts - PreRoll + 1 .. ts + PostRoll) \intersect Ran \subseteq InWindow(ts)
<1> USE DEF ClipperAssumption
<1>1. /\ slot \in 0 .. Segments - 1 /\ ring \in [0 .. Segments - 1 -> 0 .. MaxSecond] /\ second \in Nat
      /\ ffmpeg.since \in Nat /\ ffmpeg.until \in Nat /\ LastSeen \in Nat /\ Ran = ffmpeg.since + 1 .. LastSeen
  BY DEF RingInv, RingTyped, Slots, FfmpegStates, LastSeen, Ran, MaxSecond
<1>2. /\ 1 <= ffmpeg.since /\ LastSeen <= second
      /\ \A i \in 1 .. Segments - 1 : i <= LastSeen - ffmpeg.since => ring[FileBack(slot, i)] = LastSeen - i + 1
  BY DEF RingInv, RingHoldsTheRun
<1> SUFFICES ASSUME NEW x \in Int, ts - PreRoll + 1 <= x, x <= ts + PostRoll, ffmpeg.since + 1 <= x, x <= LastSeen
             PROVE  x \in InWindow(ts)
  BY <1>1
<1> DEFINE i == LastSeen - x + 1
<1>3. i \in 1 .. Segments - 1 /\ i <= LastSeen - ffmpeg.since /\ LastSeen - i + 1 = x
  BY <1>1, <1>2
<1>4. ring[FileBack(slot, i)] = x /\ FileBack(slot, i) \in Slots
  BY <1>1, <1>2, <1>3 DEF FileBack, Slots
<1>5. x # 0 /\ x \in ts - PreRoll - 1 .. ts + PostRoll + 1
  BY <1>1, <1>2
<1> QED BY <1>4, <1>5 DEF InWindow

\* A worker's step, and with it perhaps a file, a row or the history.
LEMMA PoolMoves ==
    ASSUME ClipperAssumption, RingInv, PoolInv, [ClipperNext]_clipperVars
    PROVE  PoolInv'
<1> USE DEF PoolInv
<1>0. /\ tasks \in Seq(ClipTasks) /\ worker \in [Workers -> WorkerStates]
      /\ clipFile \in [Tokens -> {"none", "partial", "whole"}] /\ clipRow \in [Tokens -> ClipRows]
      /\ spoiled \subseteq Tokens
      /\ \A w \in Workers : /\ worker[w].at \in WorkerPlaces /\ worker[w].token \in Tokens /\ worker[w].ts \in Nat
                            /\ worker[w].until \in Nat /\ worker[w].segs \in SUBSET Int /\ worker[w].ran \in SUBSET Int
      /\ second \in Nat /\ PreRoll \in Nat /\ PostRoll \in Nat /\ Segments \in Nat
  BY DEF PoolTyped, WorkerStates, ClipperAssumption, RingInv, RingTyped, MaxSecond
<1>f. Free \in WorkerStates /\ Free.at = "free"
  BY FreeIsTyped
<1>1. ASSUME UNCHANGED <<tasks, worker, clipFile, clipRow, spoiled>> PROVE PoolInv'
  <2>1. PoolTyped' /\ CutsAreComplete'
    BY <1>1 DEF PoolTyped, CutsAreComplete, IsComplete
  <2>2. WorkersAreAlone' /\ FilesAreWhole'
    BY <1>1 DEF WorkersAreAlone, FilesAreWhole, IsShownOrNearly, IsCutting
  <2> QED BY <2>1, <2>2
<1>2. ASSUME NEW t \in Tokens, Submit(t) PROVE PoolInv'
  <2>1. /\ UNCHANGED <<worker, clipFile, clipRow, spoiled>>
        /\ tasks' \in Seq(ClipTasks)
    <3>1. PICK ts \in {second - 1, second} : ts >= 1 /\ tasks' = Append(tasks, [token |-> t, ts |-> ts])
      BY <1>2 DEF Submit
    <3>2. ts \in Nat /\ [token |-> t, ts |-> ts] \in ClipTasks
      BY <1>0, <3>1 DEF ClipTasks
    <3> QED BY <1>0, <1>2, <3>1, <3>2, AppendProperties DEF Submit, rowVars
  <2>2. PoolTyped' /\ CutsAreComplete'
    BY <2>1 DEF PoolTyped, CutsAreComplete, IsComplete
  <2>3. WorkersAreAlone' /\ FilesAreWhole'
    BY <2>1 DEF WorkersAreAlone, FilesAreWhole, IsShownOrNearly, IsCutting
  <2> QED BY <2>2, <2>3
<1>3. ASSUME NEW w \in Workers, StartTask(w) PROVE PoolInv'
  <2> DEFINE task == Head(tasks)
             next == [Free EXCEPT !.at = "sleeping", !.token = task.token, !.ts = task.ts,
                                  !.until = Later(task.ts + PostRoll, second) + 1]
  <2>1. task \in ClipTasks /\ Tail(tasks) \in Seq(ClipTasks)
    BY <1>0, <1>3, TailEffect DEF StartTask
  <2>2. /\ next \in WorkerStates /\ next.at = "sleeping" /\ next.token = task.token
        /\ next.until >= next.ts + PostRoll + 1
    <3>1. task.token \in Tokens /\ task.ts \in Nat
      BY <2>1 DEF ClipTasks
    <3>2. /\ Later(task.ts + PostRoll, second) + 1 \in Nat
          /\ Later(task.ts + PostRoll, second) + 1 >= task.ts + PostRoll + 1
      BY <1>0, <3>1 DEF Later
    <3> HIDE DEF task
    <3> QED BY <1>f, <3>1, <3>2 DEF WorkerStates, WorkerPlaces
  <2>3. /\ worker[w].at = "free" /\ worker' = [worker EXCEPT ![w] = next] /\ tasks' = Tail(tasks)
        /\ spoiled' = (IF task.token \in AtWork THEN spoiled \union {task.token} ELSE spoiled)
        /\ UNCHANGED <<clipFile, clipRow>>
    BY <1>3 DEF StartTask
  <2> HIDE DEF next
  <2>4. /\ worker' \in [Workers -> WorkerStates] /\ worker'[w] = next
        /\ \A v \in Workers : v # w => worker'[v] = worker[v]
        /\ spoiled \subseteq spoiled' /\ spoiled' \subseteq Tokens
    BY <1>0, <2>1, <2>2, <2>3 DEF ClipTasks
  <2>5. PoolTyped'
    BY <1>0, <2>1, <2>3, <2>4 DEF PoolTyped
  <2>6. CutsAreComplete'
    BY <2>2, <2>3, <2>4 DEF CutsAreComplete, IsComplete
  <2>7. WorkersAreAlone'
    <3>1. \A v \in Workers : v # w /\ worker[v].at # "free" /\ worker[v].token = task.token => task.token \in spoiled'
      BY <2>3 DEF AtWork
    <3> HIDE DEF task
    <3> QED BY <2>2, <2>4, <3>1 DEF WorkersAreAlone
  <2>8. FilesAreWhole'
    BY <2>2, <2>3, <2>4 DEF FilesAreWhole, IsShownOrNearly, IsCutting
  <2> QED BY <2>5, <2>6, <2>7, <2>8
<1>4. ASSUME NEW w \in Workers, Gather(w) PROVE PoolInv'
  <2> DEFINE window == InWindow(worker[w].ts)
             next == [worker[w] EXCEPT !.segs = window, !.ran = Ran, !.until = second,
                                       !.at = IF window = {} THEN "failing" ELSE "writing"]
  <2>1. window \in SUBSET Int /\ Ran \in SUBSET Int
    BY DEF RingInv, RingTyped, InWindow, Ran, FfmpegStates, MaxSecond, ClipperAssumption
  <2>2. /\ worker[w].at = "sleeping" /\ second >= worker[w].until /\ worker' = [worker EXCEPT ![w] = next]
        /\ clipFile' = (IF window = {} THEN clipFile ELSE [clipFile EXCEPT ![worker[w].token] = "partial"])
        /\ UNCHANGED <<tasks, clipRow, spoiled>>
    BY <1>0, <1>4 DEF Gather
  <2>3. /\ next \in WorkerStates /\ next.token = worker[w].token /\ next.ts = worker[w].ts /\ next.until = second
        /\ next.segs = window /\ next.ran = Ran /\ next.at \in {"failing", "writing"}
    <3> HIDE DEF window
    <3>1. worker[w] \in WorkerStates /\ second \in Nat
      BY <1>0
    <3> QED BY <2>1, <3>1 DEF WorkerStates, WorkerPlaces
  <2>4. IsComplete(next, next.ts, next.until)
    <3>1. second >= worker[w].ts + PostRoll + 1
      BY <1>0, <2>2, SMTT(20) DEF CutsAreComplete
    <3> HIDE DEF next
    <3> QED BY <1>0, <2>3, <3>1, GatheredIsComplete DEF IsComplete
  <2> HIDE DEF next, window
  <2>5. /\ worker' \in [Workers -> WorkerStates] /\ worker'[w] = next
        /\ \A v \in Workers : v # w => worker'[v] = worker[v]
        /\ clipFile' \in [Tokens -> {"none", "partial", "whole"}]
        /\ \A t \in Tokens : t # worker[w].token => clipFile'[t] = clipFile[t]
    BY <1>0, <2>2, <2>3
  <2>6. PoolTyped'
    BY <1>0, <2>2, <2>5 DEF PoolTyped
  <2>7. CutsAreComplete'
    <3>1. \A v \in Workers : worker'[v].at = "sleeping" => worker'[v].until >= worker'[v].ts + PostRoll + 1
      BY <2>3, <2>5 DEF CutsAreComplete
    <3>2. \A v \in Workers : worker'[v].at \in {"writing", "inserting"} => IsComplete(worker'[v], worker'[v].ts, worker'[v].until)
      BY <2>4, <2>5 DEF CutsAreComplete
    <3>3. \A t \in Tokens : clipRow'[t].path /\ ~clipRow'[t].error => IsComplete(clipRow'[t], clipRow'[t].ts, clipRow'[t].at)
      BY <2>2 DEF CutsAreComplete
    <3> QED BY <3>1, <3>2, <3>3 DEF CutsAreComplete, IsComplete
  <2>8. WorkersAreAlone'
    BY <2>2, <2>3, <2>5 DEF WorkersAreAlone
  <2>9. FilesAreWhole'
    BY <2>2, <2>3, <2>5 DEF FilesAreWhole, IsShownOrNearly, IsCutting
  <2> QED BY <2>6, <2>7, <2>8, <2>9
<1>5. ASSUME NEW w \in Workers, NEW next, next \in WorkerStates, next.at \in {"free", "failing", "inserting"},
             worker[w].at \in {"writing", "failing", "inserting"}, worker' = [worker EXCEPT ![w] = next],
             tasks' = tasks, clipFile' \in [Tokens -> {"none", "partial", "whole"}], clipRow' \in [Tokens -> ClipRows],
             spoiled \subseteq spoiled', spoiled' \subseteq Tokens,
             next.at # "free" => /\ worker[w].at = "writing" /\ clipRow' = clipRow
                                 /\ next = [worker[w] EXCEPT !.at = next.at],
             next.at = "inserting" => clipFile'[worker[w].token] = "whole",
             \A t \in Tokens : clipFile'[t] = clipFile[t] \/ clipFile'[t] = "whole",
             \A t \in Tokens : clipRow'[t].path /\ ~clipRow'[t].error =>
                 \/ clipRow'[t] = clipRow[t]
                 \/ /\ t = worker[w].token /\ worker[w].at = "inserting"
                    /\ clipRow'[t] = Inserted(clipRow[t], worker[w]),
             next.at = "free" => \/ worker[w].token \in spoiled'
                                 \/ worker[w].at = "inserting"
                                 \/ worker[w].at = "failing" /\ clipRow'[worker[w].token].error
      PROVE  PoolInv'
  <2> DEFINE token == worker[w].token
  <2>1. /\ worker' \in [Workers -> WorkerStates] /\ worker'[w] = next
        /\ \A v \in Workers : v # w => worker'[v] = worker[v]
        /\ token \in Tokens
    BY <1>0, <1>5
  <2>2. PoolTyped'
    BY <1>0, <1>5, <2>1 DEF PoolTyped
  <2>3. next.at # "free" =>
           /\ next.token = token /\ next.ts = worker[w].ts /\ next.until = worker[w].until
           /\ next.segs = worker[w].segs /\ next.ran = worker[w].ran
    BY <1>0, <1>5 DEF WorkerStates
  <2>4. CutsAreComplete'
    <3>1. \A v \in Workers : worker'[v].at = "sleeping" => worker'[v].until >= worker'[v].ts + PostRoll + 1
      BY <1>5, <2>1 DEF CutsAreComplete
    <3>2. \A v \in Workers : worker'[v].at \in {"writing", "inserting"} => IsComplete(worker'[v], worker'[v].ts, worker'[v].until)
      BY <1>5, <2>1, <2>3 DEF CutsAreComplete, IsComplete
    <3>3. ASSUME NEW t \in Tokens, clipRow'[t].path, ~clipRow'[t].error
          PROVE  IsComplete(clipRow'[t], clipRow'[t].ts, clipRow'[t].at)
      <4>1. CASE clipRow'[t] = clipRow[t]
        BY <3>3, <4>1 DEF CutsAreComplete, IsComplete
      <4>2. CASE worker[w].at = "inserting" /\ clipRow'[t] = Inserted(clipRow[t], worker[w])
        <5>1. IsComplete(worker[w], worker[w].ts, worker[w].until)
          BY <4>2 DEF CutsAreComplete
        <5> QED BY <4>2, <5>1 DEF Inserted, IsComplete
      <4> QED BY <1>5, <3>3, <4>1, <4>2
    <3> QED BY <3>1, <3>2, <3>3 DEF CutsAreComplete, IsComplete
  <2>5. WorkersAreAlone'
    BY <1>5, <2>1, <2>3 DEF WorkersAreAlone
  <2>6. FilesAreWhole'
    <3> SUFFICES ASSUME NEW t \in Tokens, IsShownOrNearly(t)', clipFile'[t] # "whole", t \notin spoiled'
                 PROVE  \E v \in Workers : IsCutting(v, t)'
      BY DEF FilesAreWhole
    <3>1. clipFile'[t] = clipFile[t] /\ t \notin spoiled
      BY <1>5
    <3>2. IsShownOrNearly(t)
      <4>1. CASE clipRow'[t].path /\ ~clipRow'[t].error
        BY <1>5, <4>1 DEF IsShownOrNearly
      <4>2. ASSUME NEW v \in Workers, worker'[v].at = "inserting", worker'[v].token = t PROVE IsShownOrNearly(t)
        BY <1>5, <2>1, <2>3, <4>2 DEF IsShownOrNearly
      <4> QED BY <4>1, <4>2 DEF IsShownOrNearly
    <3>3. PICK v \in Workers : worker[v].token = t /\ worker[v].at \in {"writing", "failing"}
      BY <3>1, <3>2 DEF FilesAreWhole, IsCutting
    <3>4. CASE v # w
      BY <2>1, <3>3, <3>4 DEF IsCutting
    <3>5. CASE v = w
      <4>1. t = token
        BY <3>3, <3>5
      <4>2. CASE next.at = "failing"
        BY <2>1, <2>3, <3>5, <4>1, <4>2 DEF IsCutting
      <4>3. next.at # "inserting"
        BY <1>5, <4>1
      <4>4. CASE next.at = "free"
        <5>1. worker[w].at = "failing" /\ clipRow'[t].error
          BY <1>5, <3>3, <3>5, <4>1, <4>4
        <5>2. PICK u \in Workers : worker'[u].at = "inserting" /\ worker'[u].token = t
          BY <5>1 DEF IsShownOrNearly
        <5>3. u # w /\ worker[u].at = "inserting" /\ worker[u].token = t
          BY <2>1, <4>4, <5>2
        <5>4. t \in spoiled
          BY <3>3, <3>5, <5>1, <5>3 DEF WorkersAreAlone
        <5> QED BY <3>1, <5>4
      <4> QED BY <1>5, <4>2, <4>3, <4>4
    <3> QED BY <3>4, <3>5
  <2> QED BY <2>2, <2>4, <2>5, <2>6
<1>6. ASSUME NEW w \in Workers, WriteClip(w) PROVE PoolInv'
  <2> DEFINE next == IF worker'[w].at = "free" THEN Free ELSE [worker[w] EXCEPT !.at = worker'[w].at]
  <2>0. worker[w].at = "writing" /\ tasks' = tasks /\ clipRow' = clipRow /\ worker[w].token \in Tokens
        /\ worker[w] \in WorkerStates
    BY <1>0, <1>6 DEF WriteClip
  <2>1. CASE /\ clipFile' = [clipFile EXCEPT ![worker[w].token] = "whole"]
             /\ worker' = [worker EXCEPT ![w].at = "inserting"] /\ UNCHANGED spoiled
    <3>1. PICK n : n = [worker[w] EXCEPT !.at = "inserting"]
      OBVIOUS
    <3>2. n \in WorkerStates /\ n.at = "inserting" /\ worker' = [worker EXCEPT ![w] = n]
      BY <1>0, <2>0, <2>1, <3>1 DEF WorkerStates, WorkerPlaces
    <3>3. /\ clipFile' \in [Tokens -> {"none", "partial", "whole"}] /\ clipFile'[worker[w].token] = "whole"
          /\ \A t \in Tokens : clipFile'[t] = clipFile[t] \/ clipFile'[t] = "whole"
      BY <1>0, <2>0, <2>1
    <3> QED BY <1>0, <1>5, <2>0, <2>1, <3>1, <3>2, <3>3
  <2>2. CASE worker' = [worker EXCEPT ![w].at = "failing"] /\ UNCHANGED <<clipFile, spoiled>>
    <3>1. PICK n : n = [worker[w] EXCEPT !.at = "failing"]
      OBVIOUS
    <3>2. n \in WorkerStates /\ n.at = "failing" /\ worker' = [worker EXCEPT ![w] = n]
      BY <1>0, <2>0, <2>2, <3>1 DEF WorkerStates, WorkerPlaces
    <3> QED BY <1>0, <1>5, <2>0, <2>2, <3>1, <3>2
  <2>3. CASE /\ worker' = [worker EXCEPT ![w] = Free] /\ spoiled' = spoiled \union {worker[w].token} /\ UNCHANGED clipFile
    BY <1>0, <1>5, <1>f, <2>0, <2>3
  <2> QED BY <1>6, <2>1, <2>2, <2>3 DEF WriteClip
<1>7. ASSUME NEW w \in Workers, InsertRow(w) PROVE PoolInv'
  <2>0. /\ worker[w].at \in {"inserting", "failing"} /\ tasks' = tasks /\ clipFile' = clipFile
        /\ worker' = [worker EXCEPT ![w] = Free] /\ worker[w].token \in Tokens /\ worker[w] \in WorkerStates
    BY <1>0, <1>7 DEF InsertRow
  <2> DEFINE token == worker[w].token
             new == IF worker[w].at = "inserting" THEN Inserted(clipRow[token], worker[w])
                    ELSE [clipRow[token] EXCEPT !.here = TRUE, !.error = TRUE, !.ts = worker[w].ts]
  <2>1. CASE clipRow' = [clipRow EXCEPT ![token] = new] /\ UNCHANGED spoiled
    <3>1. new \in ClipRows
      <4>1. CASE worker[w].at = "inserting"
        BY <2>0, <4>1 DEF Inserted, WorkerStates, ClipRows
      <4>2. CASE worker[w].at # "inserting"
        <5>1. clipRow[token] \in ClipRows /\ worker[w].ts \in Nat
          BY <1>0, <2>0
        <5> QED BY <4>2, <5>1 DEF ClipRows
      <4> QED BY <4>1, <4>2
    <3>2. worker[w].at = "failing" => new.error
      BY <1>0, <2>0 DEF ClipRows
    <3>3. worker[w].at = "inserting" => new = Inserted(clipRow[token], worker[w])
      OBVIOUS
    <3> HIDE DEF new
    <3>4. /\ clipRow' \in [Tokens -> ClipRows] /\ clipRow'[token] = new
          /\ \A t \in Tokens : t # token => clipRow'[t] = clipRow[t]
      BY <1>0, <2>0, <2>1, <3>1
    <3> QED BY <1>0, <1>5, <1>f, <2>0, <2>1, <3>2, <3>3, <3>4, ZenonT(30)
  <2>2. CASE spoiled' = spoiled \union {token} /\ UNCHANGED clipRow
    BY <1>0, <1>5, <1>f, <2>0, <2>2
  <2> QED BY <1>7, <2>1, <2>2 DEF InsertRow
<1>8. ASSUME ClipperDies PROVE PoolInv'
  <2>1. /\ tasks' = <<>> /\ worker' = [w \in Workers |-> Free] /\ spoiled' = spoiled \union UnderWay
        /\ clipFile' = clipFile /\ clipRow' = clipRow
    BY <1>8 DEF ClipperDies
  <2>2. UnderWay \subseteq Tokens
    <3>1. \A i \in 1 .. Len(tasks) : tasks[i].token \in Tokens
      <4>1. \A i \in 1 .. Len(tasks) : tasks[i] \in ClipTasks
        BY <1>0, ElementOfSeq
      <4> QED BY <4>1 DEF ClipTasks
    <3> QED BY <1>0, <3>1, LenProperties DEF UnderWay, AtWork
  <2>3. \A w \in Workers : worker[w].at # "free" => worker[w].token \in spoiled'
    BY <2>1 DEF UnderWay, AtWork
  <2>4. \A w \in Workers : worker'[w] = Free
    BY <2>1
  <2>5. PoolTyped'
    BY <1>0, <1>f, <2>1, <2>2 DEF PoolTyped
  <2>6. CutsAreComplete' /\ WorkersAreAlone'
    BY <1>f, <2>1, <2>4 DEF CutsAreComplete, WorkersAreAlone, IsComplete
  <2>7. FilesAreWhole'
    BY <1>f, <2>1, <2>3, <2>4 DEF FilesAreWhole, IsShownOrNearly, IsCutting
  <2> QED BY <2>5, <2>6, <2>7
<1>9. CASE UNCHANGED clipperVars
  BY <1>1, <1>9 DEF clipperVars, rowVars
<1>10. ASSUME NextSecond \/ FfmpegExits \/ FfmpegRestarts \/ (\E on \in BOOLEAN : ReloadStops(on)) \/ ReloadStarts
       PROVE PoolInv'
  BY <1>1, <1>10 DEF NextSecond, FfmpegExits, FfmpegRestarts, ReloadStops, ReloadStarts, rowVars
<1> QED BY <1>2, <1>3, <1>4, <1>6, <1>7, <1>8, <1>9, <1>10 DEF ClipperNext

LEMMA ClipperStep ==
    ASSUME ClipperAssumption, RingInv /\ PoolInv, [ClipperNext]_clipperVars PROVE (RingInv /\ PoolInv)'
<1>1. ASSUME NEW w \in Workers, StartTask(w) \/ Gather(w) \/ WriteClip(w) \/ InsertRow(w) PROVE UNCHANGED ringVars
  BY <1>1 DEF StartTask, Gather, WriteClip, InsertRow
<1>2. ASSUME NEW t \in Tokens, Submit(t) PROVE UNCHANGED ringVars
  BY <1>2 DEF Submit
<1>3. \/ NextSecond \/ FfmpegExits \/ FfmpegRestarts \/ (\E on \in BOOLEAN : ReloadStops(on))
      \/ ReloadStarts \/ ClipperDies \/ UNCHANGED ringVars
  BY <1>1, <1>2 DEF ClipperNext, clipperVars, ringVars
<1> QED BY <1>3, RingMoves, PoolMoves

LEMMA ClipperInvSuffices == ASSUME ClipperAssumption, RingInv, PoolInv PROVE ClipsHold
<1>1. ClipperTypeOK
  BY DEF RingInv, RingTyped, PoolInv, PoolTyped, ClipperTypeOK, FfmpegStates, WorkerStates, WorkerPlaces
<1>2. ClipsAreComplete
  BY DEF PoolInv, CutsAreComplete, IsComplete, ClipsAreComplete, Shown, Needed
<1>3. ShownClipsAreWhole
  BY DEF PoolInv, FilesAreWhole, IsShownOrNearly, IsCutting, ShownClipsAreWhole, Shown, UnderWay, AtWork
<1> QED BY <1>1, <1>2, <1>3 DEF ClipsHold

\* However the ring turns, ffmpeg dies and tasks overlap, what the events page shows
\* of an event is a whole clip, with all the ring held of its window (segmenter.py,
\* clipper main.py, clips_db.py).
THEOREM ClipsAreCorrect == ClipperSpec => []ClipsHold
<1>1. ClipperInit => RingInv /\ PoolInv
  <2> SUFFICES ASSUME ClipperInit PROVE RingInv /\ PoolInv
    OBVIOUS
  <2> USE ClipperAssumption DEF ClipperAssumption
  <2>1. 1 \in 1 .. MaxSecond /\ 0 \in 0 .. MaxSecond /\ 0 \in Slots /\ MaxSecond \in Nat
    BY DEF MaxSecond, Slots
  <2>2. ffmpeg \in FfmpegStates /\ ffmpeg.state = "up" /\ ffmpeg.since = 1 /\ ffmpeg.until = 0
    BY DEF ClipperInit, FfmpegStates
  <2>3. RingTyped
    BY <2>1, <2>2 DEF ClipperInit, RingTyped
  <2>4. RingHoldsTheRun
    BY <2>2 DEF ClipperInit, RingHoldsTheRun, LastSeen
  <2>5. PoolTyped
    BY FreeIsTyped DEF ClipperInit, PoolTyped, NoClip, ClipRows
  <2>6. CutsAreComplete /\ WorkersAreAlone /\ FilesAreWhole
    BY FreeIsTyped DEF ClipperInit, CutsAreComplete, WorkersAreAlone, FilesAreWhole, IsShownOrNearly, NoClip
  <2> QED BY <2>3, <2>4, <2>5, <2>6 DEF RingInv, PoolInv
<1> QED BY <1>1, ClipperAssumption, ClipperStep, ClipperInvSuffices, PTL DEF ClipperSpec

-----------------------------------------------------------------------------
(* Publication and visits.                                                 *)

Times == 0 .. MaxClock
Stamps == [time : Times, by : CameraThreads]
ThreadPlaces == {"idle", "deciding", "saving", "publishing", "visiting", "closing"}
ThreadStates == [at : ThreadPlaces, now : Times, event : 0 .. MaxEvents]
VisitRecords == [start : Times, last : Times, of : SUBSET Events]
Writers == CameraThreads \union {Main}

DetectionsTyped ==
    /\ clock \in Times /\ lastEvent \in Times
    /\ stamp \in Seq(Stamps) /\ Len(stamp) <= MaxEvents
    /\ cam \in [CameraThreads -> ThreadStates]
    /\ rowed \in SUBSET Events /\ rowErrors \in Nat
    /\ buffer \in [CameraThreads -> Seq(Events)] /\ channel \in Seq(Events) /\ doubled \in Nat
    /\ visit \in VisitRecords /\ closing \in [Writers -> VisitRecords] /\ sessions \in SUBSET VisitRecords
    /\ late \in BOOLEAN
BuffersAreBounded == \A t \in CameraThreads : Len(buffer[t]) <= BufferMax

ElementsOf(s) == {s[i] : i \in DOMAIN s}
IsRising(s) == \A i, j \in DOMAIN s : i < j => s[i] < s[j]

\* What a thread has still to publish.
IsSending(t) == cam[t].at \in {"saving", "publishing"}
Pending(t) == ElementsOf(buffer[t]) \union (IF IsSending(t) THEN {cam[t].event} ELSE {})
AllPending == UNION {Pending(t) : t \in CameraThreads}

IsEventOf(e, t) == e \in 1 .. Len(stamp) /\ stamp[e].by = t
EventsAreTheirThreads ==
    \A t \in CameraThreads : /\ \A e \in Pending(t) : IsEventOf(e, t)
                             /\ cam[t].at = "visiting" => IsEventOf(cam[t].event, t)
BuffersRise ==
    \A t \in CameraThreads : /\ IsRising(buffer[t])
                             /\ IsSending(t) => \A e \in ElementsOf(buffer[t]) : e < cam[t].event

\* What is on the channel is not after what is still to be published.
ChannelIsInOrder ==
    /\ \A k \in DOMAIN channel : channel[k] \in 1 .. Len(stamp)
    /\ \A i, j \in DOMAIN channel : i < j /\ stamp[channel[i]].by = stamp[channel[j]].by => channel[i] <= channel[j]
    /\ \A k \in DOMAIN channel : \A e \in Pending(stamp[channel[k]].by) : channel[k] <= e

\* What a lost reply makes go out again is counted.
RepeatsAreCounted ==
    Len(channel) + Cardinality(Published \intersect AllPending) <= Cardinality(Published) + doubled

EventsAreKnown ==
    /\ Happened \subseteq AllPending \union Published \union dropped
    /\ \A t \in CameraThreads : cam[t].at = "visiting" => cam[t].event \in InBuffers \union Published \union dropped

ClosersAreClosing == \A t \in CameraThreads : closing[t] # NoVisit => cam[t].at = "closing"

PublicationInv ==
    /\ DetectionsTyped /\ BuffersAreBounded /\ EventsAreTheirThreads /\ BuffersRise
    /\ ChannelIsInOrder /\ RepeatsAreCounted /\ EventsAreKnown /\ ClosersAreClosing

LEMMA TailRises ==
    ASSUME NEW S \in SUBSET Nat, NEW s \in Seq(S), s # <<>>, IsRising(s)
    PROVE  /\ Tail(s) \in Seq(S) /\ IsRising(Tail(s)) /\ Len(s) \in Nat /\ Len(Tail(s)) = Len(s) - 1
           /\ Head(s) \in ElementsOf(s) /\ \A x \in ElementsOf(s) : Head(s) <= x
           /\ ElementsOf(Tail(s)) = ElementsOf(s) \ {Head(s)}
<1>1. /\ Tail(s) \in Seq(S) /\ DOMAIN Tail(s) = 1 .. Len(s) - 1
      /\ \A i \in 1 .. Len(s) - 1 : Tail(s)[i] = s[i + 1]
      /\ Head(s) = s[1] /\ Len(s) \in Nat /\ 1 <= Len(s) /\ DOMAIN s = 1 .. Len(s)
  BY TailEffect
<1>2. \A i \in 1 .. Len(s) : s[i] \in Nat
  BY <1>1, ElementOfSeq
<1>3. Len(Tail(s)) = Len(s) - 1
  BY HeadTailProperties
<1>4. \A i, j \in 1 .. Len(s) : i < j => s[i] < s[j]
  BY <1>1 DEF IsRising
<1>5. IsRising(Tail(s))
  <2> SUFFICES ASSUME NEW i \in 1 .. Len(s) - 1, NEW j \in 1 .. Len(s) - 1, i < j PROVE Tail(s)[i] < Tail(s)[j]
    BY <1>1 DEF IsRising
  <2>1. i + 1 \in 1 .. Len(s) /\ j + 1 \in 1 .. Len(s) /\ i + 1 < j + 1
    BY <1>1
  <2> QED BY <1>1, <1>4, <2>1
<1>6. Head(s) \in ElementsOf(s)
  BY <1>1 DEF ElementsOf
<1>7. \A i \in 1 .. Len(s) : i # 1 => s[1] < s[i]
  BY <1>1, <1>4
<1>8. \A x \in ElementsOf(s) : Head(s) <= x
  BY <1>1, <1>2, <1>7 DEF ElementsOf
<1>9. ElementsOf(Tail(s)) = ElementsOf(s) \ {Head(s)}
  <2>1. ASSUME NEW i \in 1 .. Len(s) - 1 PROVE Tail(s)[i] \in ElementsOf(s) \ {Head(s)}
    <3>1. i + 1 \in 1 .. Len(s) /\ i + 1 # 1
      BY <1>1
    <3>2. Tail(s)[i] = s[i + 1] /\ s[1] < s[i + 1] /\ s[1] \in Nat
      BY <1>1, <1>2, <1>7, <3>1
    <3> QED BY <1>1, <1>2, <3>1, <3>2 DEF ElementsOf
  <2>2. ASSUME NEW i \in 1 .. Len(s), s[i] # Head(s) PROVE s[i] \in ElementsOf(Tail(s))
    <3>1. i - 1 \in 1 .. Len(s) - 1 /\ (i - 1) + 1 = i
      BY <1>1, <2>2
    <3>2. Tail(s)[i - 1] = s[i]
      BY <1>1, <3>1
    <3> QED BY <1>1, <3>1, <3>2 DEF ElementsOf
  <2> QED BY <1>1, <2>1, <2>2 DEF ElementsOf
<1> QED BY <1>1, <1>3, <1>5, <1>6, <1>8, <1>9

LEMMA AppendRises ==
    ASSUME NEW S \in SUBSET Nat, NEW s \in Seq(S), NEW e \in S, IsRising(s), \A x \in ElementsOf(s) : x < e
    PROVE  /\ Append(s, e) \in Seq(S) /\ IsRising(Append(s, e)) /\ Append(s, e) # <<>>
           /\ Len(s) \in Nat /\ Len(Append(s, e)) = Len(s) + 1
           /\ ElementsOf(Append(s, e)) = ElementsOf(s) \union {e}
           /\ s # <<>> => Head(Append(s, e)) = Head(s)
<1> DEFINE a == Append(s, e)
<1>1. /\ a \in Seq(S) /\ Len(a) = Len(s) + 1 /\ a # <<>>
      /\ \A i \in 1 .. Len(s) : a[i] = s[i]
      /\ a[Len(s) + 1] = e
  BY AppendProperties
<1>2. Len(s) \in Nat /\ DOMAIN s = 1 .. Len(s) /\ DOMAIN a = 1 .. Len(s) + 1
  BY <1>1, LenProperties
<1> HIDE DEF a
<1>3. \A i, j \in 1 .. Len(s) : i < j => s[i] < s[j]
  BY <1>2 DEF IsRising
<1>4. \A i \in 1 .. Len(s) : s[i] < e
  BY <1>2 DEF ElementsOf
<1>5. IsRising(a)
  BY <1>1, <1>2, <1>3, <1>4 DEF IsRising
<1>6. ElementsOf(a) = ElementsOf(s) \union {e}
  <2>1. \A i \in 1 .. Len(s) + 1 : a[i] \in ElementsOf(s) \union {e}
    <3>1. \A i \in 1 .. Len(s) + 1 : i \in 1 .. Len(s) \/ i = Len(s) + 1
      BY <1>2
    <3> QED BY <1>1, <1>2, <3>1 DEF ElementsOf
  <2>2. \A i \in 1 .. Len(s) : s[i] \in ElementsOf(a)
    <3>1. \A i \in 1 .. Len(s) : i \in 1 .. Len(s) + 1
      BY <1>2
    <3> QED BY <1>1, <1>2, <3>1 DEF ElementsOf
  <2>3. e \in ElementsOf(a)
    BY <1>1, <1>2 DEF ElementsOf
  <2> QED BY <1>2, <2>1, <2>2, <2>3 DEF ElementsOf
<1>7. s # <<>> => Head(a) = Head(s)
  <2> SUFFICES ASSUME s # <<>> PROVE Head(a) = Head(s)
    OBVIOUS
  <2>1. Head(s) = s[1] /\ 1 <= Len(s) /\ Head(a) = a[1]
    BY <1>1, TailEffect
  <2> QED BY <1>1, <1>2, <2>1
<1> QED BY <1>1, <1>2, <1>5, <1>6, <1>7 DEF a

\* What one publication more does to the count.
LEMMA OneMore ==
    ASSUME NEW P, NEW D, NEW E, NEW x \in D, IsFiniteSet(P), E \subseteq D, NEW n \in Nat, NEW d \in Nat,
           n + Cardinality(P \intersect D) <= Cardinality(P) + d
    PROVE  /\ n + 1 + Cardinality((P \union {x}) \intersect E) <= Cardinality(P \union {x}) + d + 1
           /\ x \notin E => n + 1 + Cardinality((P \union {x}) \intersect E) <= Cardinality(P \union {x}) + d
<1>1. /\ IsFiniteSet(P \intersect D) /\ IsFiniteSet(P \intersect E)
      /\ Cardinality(P \intersect E) <= Cardinality(P \intersect D)
  <2>1. IsFiniteSet(P \intersect D)
    BY FS_Subset
  <2>2. P \intersect E \in SUBSET (P \intersect D)
    OBVIOUS
  <2> QED BY <2>1, <2>2, FS_Subset
<1>2. /\ Cardinality(P) \in Nat /\ Cardinality(P \intersect D) \in Nat /\ Cardinality(P \intersect E) \in Nat
  BY <1>1, FS_CardinalityType
<1>3. Cardinality(P \union {x}) = IF x \in P THEN Cardinality(P) ELSE Cardinality(P) + 1
  BY FS_AddElement
<1>4. CASE x \in E
  <2>1. (P \union {x}) \intersect E = (P \intersect E) \union {x}
    BY <1>4
  <2>2. Cardinality((P \intersect E) \union {x})
          = IF x \in P \intersect E THEN Cardinality(P \intersect E) ELSE Cardinality(P \intersect E) + 1
    BY <1>1, FS_AddElement
  <2> QED BY <1>1, <1>2, <1>3, <1>4, <2>1, <2>2
<1>5. CASE x \notin E
  <2>1. (P \union {x}) \intersect E = P \intersect E
    BY <1>5
  <2>2. CASE x \notin P
    <3>1. Cardinality(P \union {x}) = Cardinality(P) + 1
      BY <1>3, <2>2
    <3>2. n + 1 + Cardinality(P \intersect E) <= Cardinality(P) + 1 + d
      BY <1>1, <1>2
    <3>3. n + 1 + Cardinality(P \intersect E) <= Cardinality(P) + 1 + d + 1
      BY <1>2, <3>2
    <3> QED BY <2>1, <3>1, <3>2, <3>3
  <2>3. CASE x \in P
    <3>1. P \intersect E \in SUBSET ((P \intersect D) \ {x})
      BY <1>5
    <3>2. IsFiniteSet((P \intersect D) \ {x}) /\ Cardinality((P \intersect D) \ {x}) = Cardinality(P \intersect D) - 1
      BY <1>1, <2>3, FS_RemoveElement
    <3>3. Cardinality(P \intersect E) <= Cardinality(P \intersect D) - 1
      BY <3>1, <3>2, FS_Subset
    <3> QED BY <1>1, <1>2, <1>3, <2>1, <2>3, <3>3
  <2> QED BY <2>2, <2>3
<1> QED BY <1>4, <1>5

LEMMA DetectionTypes ==
    ASSUME DetectionsAssumption
    PROVE  /\ Events \in SUBSET Nat /\ NoVisit \in VisitRecords /\ Main \in Writers /\ Main \notin CameraThreads
           /\ CameraThreads \subseteq Writers
<1>1. 0 \in Times
  BY DEF DetectionsAssumption, Times
<1> QED BY <1>1 DEF DetectionsAssumption, Events, NoVisit, VisitRecords, Writers, Main

LEMMA PublicationTypes ==
    ASSUME DetectionsAssumption, PublicationInv
    PROVE  /\ \A t \in CameraThreads : /\ buffer[t] \in Seq(Events) /\ cam[t] \in ThreadStates
                                       /\ Len(buffer[t]) \in Nat /\ Len(buffer[t]) <= BufferMax
                                       /\ cam[t].at \in ThreadPlaces /\ cam[t].now \in Times
                                       /\ cam[t].event \in 0 .. MaxEvents
           /\ Len(stamp) \in Nat /\ DOMAIN stamp = 1 .. Len(stamp) /\ Happened = 1 .. Len(stamp)
           /\ Len(channel) \in Nat /\ DOMAIN channel = 1 .. Len(channel)
           /\ \A k \in DOMAIN channel : channel[k] \in Events
           /\ \A e \in 1 .. Len(stamp) : stamp[e].time \in Times /\ stamp[e].by \in CameraThreads
           /\ Published = ElementsOf(channel) /\ Published \subseteq 1 .. Len(stamp)
           /\ IsFiniteSet(Published) /\ InBuffers = UNION {ElementsOf(buffer[t]) : t \in CameraThreads}
           /\ doubled \in Nat /\ Len(stamp) <= MaxEvents
<1> USE DEF PublicationInv
<1>1. \A t \in CameraThreads : /\ buffer[t] \in Seq(Events) /\ cam[t] \in ThreadStates
  BY DEF DetectionsTyped
<1>2. \A t \in CameraThreads : /\ Len(buffer[t]) \in Nat /\ Len(buffer[t]) <= BufferMax
                               /\ cam[t].at \in ThreadPlaces /\ cam[t].now \in Times /\ cam[t].event \in 0 .. MaxEvents
  BY <1>1, LenProperties DEF BuffersAreBounded, ThreadStates
<1>3. /\ Len(stamp) \in Nat /\ DOMAIN stamp = 1 .. Len(stamp) /\ Happened = 1 .. Len(stamp)
      /\ Len(channel) \in Nat /\ DOMAIN channel = 1 .. Len(channel)
  BY LenProperties DEF DetectionsTyped, Happened
<1>4. \A k \in 1 .. Len(channel) : channel[k] \in Events
  BY ElementOfSeq DEF DetectionsTyped
<1>5. \A e \in 1 .. Len(stamp) : stamp[e] \in Stamps
  BY ElementOfSeq DEF DetectionsTyped
<1>6. \A e \in 1 .. Len(stamp) : stamp[e].time \in Times /\ stamp[e].by \in CameraThreads
  BY <1>5 DEF Stamps
<1>7. Published = ElementsOf(channel) /\ Published \subseteq 1 .. Len(stamp)
  BY DEF Published, ElementsOf, ChannelIsInOrder
<1>8. IsFiniteSet(Published)
  <2>1. IsFiniteSet(1 .. Len(stamp))
    BY <1>3, FS_Interval
  <2> QED BY <1>7, <2>1, FS_Subset
<1>9. InBuffers = UNION {ElementsOf(buffer[t]) : t \in CameraThreads} /\ doubled \in Nat /\ Len(stamp) <= MaxEvents
  BY DEF InBuffers, ElementsOf, DetectionsTyped
<1> QED BY <1>1, <1>2, <1>3, <1>4, <1>6, <1>7, <1>8, <1>9

\* Nothing is published.
LEMMA ChannelRests ==
    ASSUME DetectionsAssumption, PublicationInv, UNCHANGED <<channel, stamp, doubled>>,
           \A t \in CameraThreads : Pending(t)' \subseteq Pending(t)
    PROVE  ChannelIsInOrder' /\ RepeatsAreCounted'
<1>0. /\ IsFiniteSet(Published) /\ Len(channel) \in Nat /\ doubled \in Nat
      /\ \A k \in DOMAIN channel : stamp[channel[k]].by \in CameraThreads
  BY PublicationTypes DEF PublicationInv, ChannelIsInOrder
<1>1. ChannelIsInOrder'
  BY <1>0 DEF PublicationInv, ChannelIsInOrder
<1>2. RepeatsAreCounted'
  <2>1. AllPending' \subseteq AllPending /\ Published' = Published
    BY DEF AllPending, Published
  <2>2. IsFiniteSet(Published \intersect AllPending)
    BY <1>0, FS_Subset
  <2>3. Published \intersect AllPending' \in SUBSET (Published \intersect AllPending)
    BY <2>1
  <2>4. /\ Cardinality(Published \intersect AllPending') <= Cardinality(Published \intersect AllPending)
        /\ IsFiniteSet(Published \intersect AllPending')
    BY <2>2, <2>3, FS_Subset
  <2>5. /\ Cardinality(Published) \in Nat /\ Cardinality(Published \intersect AllPending') \in Nat
        /\ Cardinality(Published \intersect AllPending) \in Nat
    BY <1>0, <2>2, <2>4, FS_CardinalityType
  <2>6. Len(channel) + Cardinality(Published \intersect AllPending) <= Cardinality(Published) + doubled
    BY DEF PublicationInv, RepeatsAreCounted
  <2>7. Len(channel) + Cardinality(Published \intersect AllPending') <= Cardinality(Published) + doubled
    BY <1>0, <2>4, <2>5, <2>6
  <2> QED BY <2>1, <2>7 DEF RepeatsAreCounted
<1> QED BY <1>1, <1>2

\* The first of what a thread has to publish goes out; it goes again only after its
\* reply was lost.
LEMMA ChannelGrows ==
    ASSUME DetectionsAssumption, PublicationInv, NEW t \in CameraThreads, NEW x \in Pending(t),
           \A e \in Pending(t) : x <= e,
           channel' = Append(channel, x), UNCHANGED stamp,
           \A u \in CameraThreads : Pending(u)' \subseteq Pending(u),
           \/ x \notin Pending(t)' /\ doubled' = doubled
           \/ doubled' = doubled + 1
    PROVE  ChannelIsInOrder' /\ RepeatsAreCounted'
<1>0. /\ IsFiniteSet(Published) /\ Len(channel) \in Nat /\ doubled \in Nat /\ Len(stamp) \in Nat
      /\ DOMAIN channel = 1 .. Len(channel) /\ channel \in Seq(Events) /\ Published = ElementsOf(channel)
      /\ \A k \in DOMAIN channel : channel[k] \in Events /\ channel[k] \in Nat
      /\ \A k \in DOMAIN channel : stamp[channel[k]].by \in CameraThreads /\ channel[k] \in 1 .. Len(stamp)
  BY PublicationTypes, DetectionTypes DEF PublicationInv, ChannelIsInOrder, DetectionsTyped
<1>1. IsEventOf(x, t) /\ \A u \in CameraThreads : \A e \in Pending(u) : IsEventOf(e, u)
  BY DEF PublicationInv, EventsAreTheirThreads
<1>2. x \in 1 .. Len(stamp) /\ stamp[x].by = t /\ x \in Events
  BY <1>1, PublicationTypes DEF IsEventOf, Events
<1>3. /\ Len(channel') = Len(channel) + 1 /\ DOMAIN channel' = 1 .. Len(channel) + 1
      /\ \A k \in 1 .. Len(channel) : channel'[k] = channel[k]
      /\ channel'[Len(channel) + 1] = x
  BY <1>0, <1>2, AppendProperties, LenProperties
<1>4. \A k \in 1 .. Len(channel) + 1 : k \in 1 .. Len(channel) \/ k = Len(channel) + 1
  BY <1>0
<1>5. ChannelIsInOrder'
  <2>1. \A k \in DOMAIN channel' : channel'[k] \in 1 .. Len(stamp)
    BY <1>0, <1>2, <1>3, <1>4
  <2>2. ASSUME NEW i \in DOMAIN channel', NEW j \in DOMAIN channel', i < j,
               stamp[channel'[i]].by = stamp[channel'[j]].by
        PROVE  channel'[i] <= channel'[j]
    <3>1. i \in 1 .. Len(channel)
      BY <1>0, <1>3, <1>4, <2>2
    <3>2. CASE j \in 1 .. Len(channel)
      BY <1>0, <1>3, <2>2, <3>1, <3>2 DEF PublicationInv, ChannelIsInOrder
    <3>3. CASE j = Len(channel) + 1
      <4>1. channel'[j] = x /\ channel'[i] = channel[i] /\ stamp[channel[i]].by = t
        BY <1>2, <1>3, <2>2, <3>1, <3>3
      <4>2. channel[i] <= x
        BY <1>0, <3>1, <4>1 DEF PublicationInv, ChannelIsInOrder
      <4> QED BY <4>1, <4>2
    <3> QED BY <1>3, <1>4, <3>2, <3>3
  <2>3. ASSUME NEW k \in DOMAIN channel', NEW u \in CameraThreads, stamp[channel'[k]].by = u, NEW e \in Pending(u)'
        PROVE  channel'[k] <= e
    <3>1. CASE k \in 1 .. Len(channel)
      <4>1. e \in Pending(stamp[channel[k]].by)
        BY <1>0, <1>3, <2>3, <3>1
      <4>2. channel[k] <= e
        BY <1>0, <3>1, <4>1 DEF PublicationInv, ChannelIsInOrder
      <4> QED BY <1>3, <3>1, <4>2
    <3>2. CASE k = Len(channel) + 1
      <4>1. channel'[k] = x /\ e \in Pending(t)
        BY <1>2, <1>3, <2>3, <3>2
      <4> QED BY <4>1
    <3> QED BY <1>3, <1>4, <3>1, <3>2
  <2>4. \A k \in DOMAIN channel' : stamp[channel'[k]].by \in CameraThreads
    BY <1>0, <1>2, <1>3, <1>4
  <2> QED BY <2>1, <2>2, <2>3, <2>4 DEF ChannelIsInOrder
<1>6. RepeatsAreCounted'
  <2>1. Published' = Published \union {x}
    <3>1. \A k \in DOMAIN channel' : channel'[k] \in Published \union {x}
      BY <1>0, <1>3, <1>4 DEF ElementsOf
    <3>2. \A k \in 1 .. Len(channel) : k \in 1 .. Len(channel) + 1
      BY <1>0
    <3>3. \A k \in DOMAIN channel : channel[k] \in Published'
      BY <1>0, <1>3, <3>2 DEF Published
    <3>4. x \in Published'
      BY <1>0, <1>3 DEF Published
    <3> QED BY <1>0, <3>1, <3>3, <3>4 DEF Published
  <2>2. AllPending' \subseteq AllPending /\ x \in AllPending
    BY DEF AllPending
  <2>3. x \notin Pending(t)' => x \notin AllPending'
    <3> SUFFICES ASSUME x \notin Pending(t)', NEW u \in CameraThreads, x \in Pending(u)' PROVE FALSE
      BY DEF AllPending
    <3>1. IsEventOf(x, u)
      BY <1>1
    <3> QED BY <1>2, <3>1 DEF IsEventOf
  <2>4. Len(channel) + Cardinality(Published \intersect AllPending) <= Cardinality(Published) + doubled
    BY DEF PublicationInv, RepeatsAreCounted
  <2>5. /\ Len(channel) + 1 + Cardinality((Published \union {x}) \intersect AllPending') <= Cardinality(Published \union {x}) + doubled + 1
        /\ x \notin AllPending' =>
             Len(channel) + 1 + Cardinality((Published \union {x}) \intersect AllPending') <= Cardinality(Published \union {x}) + doubled
    BY <1>0, <2>2, <2>4, OneMore
  <2>6. Len(channel) + 1 + Cardinality(Published' \intersect AllPending') <= Cardinality(Published') + doubled'
    <3>1. IsFiniteSet(Published \union {x})
      BY <1>0, FS_AddElement
    <3>2. Cardinality(Published \union {x}) \in Nat
      BY <3>1, FS_CardinalityType
    <3>3. CASE x \notin Pending(t)' /\ doubled' = doubled
      <4>1. x \notin AllPending'
        BY <2>3, <3>3
      <4>2. Len(channel) + 1 + Cardinality((Published \union {x}) \intersect AllPending') <= Cardinality(Published \union {x}) + doubled
        BY <2>5, <4>1
      <4> QED BY <2>1, <3>3, <4>2
    <3>4. CASE doubled' = doubled + 1
      <4>1. Cardinality(Published \union {x}) + doubled + 1 = Cardinality(Published \union {x}) + (doubled + 1)
        BY <1>0, <3>2
      <4> QED BY <2>1, <2>5, <3>4, <4>1
    <3> QED BY <3>3, <3>4
  <2> QED BY <1>3, <2>6 DEF RepeatsAreCounted
<1> QED BY <1>5, <1>6

\* What one thread's step must keep, for the rest of the invariant to be kept.
LEMMA ThreadMoves ==
    ASSUME DetectionsAssumption, PublicationInv, NEW t \in CameraThreads, NEW to, NEW b,
           cam' = [cam EXCEPT ![t] = to], buffer' = [buffer EXCEPT ![t] = b], UNCHANGED stamp,
           b \in Seq(Events), Len(b) <= BufferMax, IsRising(b), ElementsOf(b) \subseteq Pending(t),
           to.at \in {"saving", "publishing"} =>
               /\ IsSending(t) /\ to.event = cam[t].event
               /\ \A e \in ElementsOf(b) : e < to.event,
           to.at = "visiting" => to.event = cam[t].event /\ (IsSending(t) \/ cam[t].at = "visiting"),
           Published \subseteq Published', dropped \subseteq dropped',
           ElementsOf(buffer[t]) \subseteq ElementsOf(b) \union Published' \union dropped',
           IsSending(t) /\ to.at \notin {"saving", "publishing"} =>
               cam[t].event \in ElementsOf(b) \union Published' \union dropped'
    PROVE  /\ \A u \in CameraThreads : Pending(u)' \subseteq Pending(u)
           /\ BuffersAreBounded' /\ EventsAreTheirThreads' /\ BuffersRise' /\ EventsAreKnown'
<1>0. /\ \A u \in CameraThreads : u # t => cam'[u] = cam[u] /\ buffer'[u] = buffer[u]
      /\ cam'[t] = to /\ buffer'[t] = b
  BY DEF PublicationInv, DetectionsTyped
<1>1. /\ \A u \in CameraThreads : u # t => (IsSending(u)' <=> IsSending(u)) /\ Pending(u)' = Pending(u)
      /\ IsSending(t)' <=> to.at \in {"saving", "publishing"}
      /\ Pending(t)' = ElementsOf(b) \union (IF to.at \in {"saving", "publishing"} THEN {to.event} ELSE {})
  BY <1>0 DEF Pending, IsSending, ElementsOf
<1>2. Pending(t)' \subseteq Pending(t)
  BY <1>1 DEF Pending
<1>3. \A u \in CameraThreads : Pending(u)' \subseteq Pending(u)
  BY <1>1, <1>2
<1>4. BuffersAreBounded'
  BY <1>0 DEF PublicationInv, BuffersAreBounded
<1>5. EventsAreTheirThreads'
  <2>1. ASSUME NEW u \in CameraThreads, NEW e \in Pending(u)' PROVE IsEventOf(e, u)'
    BY <1>3, <2>1 DEF PublicationInv, EventsAreTheirThreads, IsEventOf
  <2>2. ASSUME NEW u \in CameraThreads, cam'[u].at = "visiting" PROVE IsEventOf(cam[u].event, u)' /\ cam'[u].event = cam[u].event
    <3>1. CASE u # t
      BY <1>0, <2>2, <3>1 DEF PublicationInv, EventsAreTheirThreads, IsEventOf
    <3>2. CASE u = t
      <4>1. IsEventOf(cam[t].event, t)
        BY <1>0, <2>2, <3>2 DEF PublicationInv, EventsAreTheirThreads, Pending
      <4> QED BY <1>0, <2>2, <3>2, <4>1 DEF IsEventOf
    <3> QED BY <3>1, <3>2
  <2> QED BY <2>1, <2>2 DEF EventsAreTheirThreads, IsEventOf
<1>6. BuffersRise'
  <2>1. ASSUME NEW u \in CameraThreads
        PROVE  IsRising(buffer'[u]) /\ (IsSending(u)' => \A e \in ElementsOf(buffer'[u]) : e < cam'[u].event)
    BY <1>0, <1>1 DEF PublicationInv, BuffersRise
  <2> QED BY <2>1 DEF BuffersRise, IsRising, ElementsOf
<1>7. EventsAreKnown'
  <2>1. InBuffers \subseteq InBuffers' \union Published' \union dropped' /\ ElementsOf(b) \subseteq InBuffers'
    BY <1>0 DEF InBuffers, ElementsOf
  <2>2. AllPending \subseteq AllPending' \union Published' \union dropped'
    <3> SUFFICES ASSUME NEW u \in CameraThreads, NEW e \in Pending(u), e \notin Published' \union dropped'
                 PROVE  e \in Pending(u)'
      BY DEF AllPending
    <3>1. CASE u # t
      BY <1>1, <3>1
    <3>2. CASE u = t
      BY <1>1, <3>2 DEF Pending, IsSending
    <3> QED BY <3>1, <3>2
  <2>3. Happened' \subseteq AllPending' \union Published' \union dropped'
    BY <2>2 DEF PublicationInv, EventsAreKnown, Happened
  <2>4. ASSUME NEW u \in CameraThreads, cam'[u].at = "visiting" PROVE cam'[u].event \in InBuffers' \union Published' \union dropped'
    <3>1. CASE cam[u].at = "visiting" /\ cam'[u].event = cam[u].event
      <4>1. cam[u].event \in InBuffers \union Published \union dropped
        BY <3>1 DEF PublicationInv, EventsAreKnown
      <4> QED BY <2>1, <3>1, <4>1
    <3>2. CASE u = t /\ IsSending(t)
      BY <1>0, <2>1, <2>4, <3>2 DEF IsSending
    <3> QED BY <1>0, <2>4, <3>1, <3>2
  <2> QED BY <2>3, <2>4 DEF EventsAreKnown
<1> QED BY <1>3, <1>4, <1>5, <1>6, <1>7

LEMMA PublicationStep ==
    ASSUME DetectionsAssumption, PublicationInv, [DetectionsNext]_detectionVars PROVE PublicationInv'
<1> USE DEF eventVars, publishVars, visitVars
<1>0. /\ DetectionsTyped /\ BuffersAreBounded /\ EventsAreTheirThreads /\ BuffersRise
      /\ ChannelIsInOrder /\ RepeatsAreCounted /\ EventsAreKnown /\ ClosersAreClosing
  BY DEF PublicationInv
<1>t. /\ \A t \in CameraThreads : /\ buffer[t] \in Seq(Events) /\ cam[t] \in ThreadStates
                                  /\ Len(buffer[t]) \in Nat /\ Len(buffer[t]) <= BufferMax
                                  /\ cam[t].at \in ThreadPlaces /\ cam[t].now \in Times
                                  /\ cam[t].event \in 0 .. MaxEvents
                                  /\ IsRising(buffer[t])
      /\ Len(stamp) \in Nat /\ Happened = 1 .. Len(stamp) /\ Len(stamp) <= MaxEvents
      /\ \A e \in 1 .. Len(stamp) : stamp[e].time \in Times /\ stamp[e].by \in CameraThreads
      /\ Events \in SUBSET Nat /\ NoVisit \in VisitRecords /\ Main \in Writers /\ Main \notin CameraThreads
      /\ CameraThreads \subseteq Writers
  BY <1>0, PublicationTypes, DetectionTypes DEF BuffersRise
\* A step of a thread that leaves its buffer and the channel alone.
<1>1. ASSUME NEW t \in CameraThreads, NEW to \in ThreadStates, cam' = [cam EXCEPT ![t] = to],
             UNCHANGED <<buffer, channel, stamp, doubled, dropped>>,
             to.at \in {"saving", "publishing"} => IsSending(t) /\ to.event = cam[t].event,
             to.at = "visiting" => to.event = cam[t].event /\ cam[t].at = "visiting",
             IsSending(t) => to.at \in {"saving", "publishing"},
             DetectionsTyped', ClosersAreClosing'
      PROVE  PublicationInv'
  <2>1. buffer' = [buffer EXCEPT ![t] = buffer[t]] /\ ElementsOf(buffer[t]) \subseteq Pending(t)
    BY <1>0, <1>1 DEF DetectionsTyped, Pending
  <2>2. Published' = Published
    BY <1>1 DEF Published
  <2>3. to.at \in {"saving", "publishing"} => \A e \in ElementsOf(buffer[t]) : e < to.event
    BY <1>0, <1>1 DEF BuffersRise
  <2>4. /\ \A u \in CameraThreads : Pending(u)' \subseteq Pending(u)
        /\ BuffersAreBounded' /\ EventsAreTheirThreads' /\ BuffersRise' /\ EventsAreKnown'
    BY <1>1, <1>t, <2>1, <2>2, <2>3, ThreadMoves
  <2>5. ChannelIsInOrder' /\ RepeatsAreCounted'
    BY <1>1, <2>4, ChannelRests
  <2> QED BY <1>1, <2>4, <2>5 DEF PublicationInv
<1>2. ASSUME NEW t \in CameraThreads, Detect(t) PROVE PublicationInv'
  <2> DEFINE to == [at |-> "deciding", now |-> clock, event |-> 0]
  <2>1. /\ to \in ThreadStates /\ cam[t].at = "idle"
        /\ cam' = [cam EXCEPT ![t] = to] /\ UNCHANGED <<clock, eventVars, publishVars, visitVars>>
    BY <1>0, <1>2 DEF Detect, ThreadStates, ThreadPlaces, DetectionsTyped, DetectionsAssumption
  <2>2. DetectionsTyped'
    BY <1>0, <2>1 DEF DetectionsTyped
  <2>3. ClosersAreClosing'
    BY <1>0, <2>1 DEF ClosersAreClosing, DetectionsTyped
  <2>4. to.at = "deciding"
    OBVIOUS
  <2> HIDE DEF to
  <2> QED BY <1>1, <2>1, <2>2, <2>3, <2>4 DEF IsSending
<1>3. ASSUME NEW t \in CameraThreads, Decide(t), Suppressed(cam[t].now), Goto(t, "idle"), UNCHANGED eventVars PROVE PublicationInv'
  <2>1. PICK to : to = [cam[t] EXCEPT !.at = "idle"]
    OBVIOUS
  <2>2. /\ to \in ThreadStates /\ to.at = "idle" /\ cam[t].at = "deciding" /\ cam' = [cam EXCEPT ![t] = to]
        /\ UNCHANGED <<clock, eventVars, publishVars, visitVars>>
    BY <1>3, <1>t, <2>1 DEF Decide, Goto, ThreadStates, ThreadPlaces
  <2>3. DetectionsTyped'
    BY <1>0, <2>2 DEF DetectionsTyped
  <2>4. ClosersAreClosing'
    BY <1>0, <2>2 DEF ClosersAreClosing, DetectionsTyped
  <2> QED BY <1>1, <2>2, <2>3, <2>4 DEF IsSending
<1>4. ASSUME NEW t \in CameraThreads, Decide(t), ~Suppressed(cam[t].now), Len(stamp) < MaxEvents, lastEvent' = cam[t].now,
             stamp' = Append(stamp, [time |-> clock, by |-> t]),
             cam' = [cam EXCEPT ![t].at = "saving", ![t].event = Len(stamp')], UNCHANGED <<rowed, rowErrors>>
      PROVE  PublicationInv'
  <2> DEFINE e == Len(stamp) + 1
             to == [cam[t] EXCEPT !.at = "saving", !.event = e]
  <2>1. /\ stamp' \in Seq(Stamps) /\ Len(stamp') = e /\ e \in 1 .. MaxEvents
        /\ \A i \in 1 .. Len(stamp) : stamp'[i] = stamp[i]
        /\ stamp'[e] = [time |-> clock, by |-> t]
    <3>1. [time |-> clock, by |-> t] \in Stamps
      BY <1>0 DEF Stamps, DetectionsTyped
    <3> QED BY <1>0, <1>4, <1>t, <3>1, AppendProperties DEF DetectionsTyped, DetectionsAssumption
  <2>2. cam' = [cam EXCEPT ![t] = to] /\ to \in ThreadStates /\ to.at = "saving" /\ to.event = e
    <3>1. e \in 0 .. MaxEvents /\ cam[t] \in ThreadStates
      BY <1>t, <2>1
    <3>2. cam' = [cam EXCEPT ![t].at = "saving", ![t].event = e]
      BY <1>4, <2>1
    <3> HIDE DEF e
    <3>3. to \in ThreadStates /\ to.at = "saving" /\ to.event = e
      BY <3>1 DEF ThreadStates, ThreadPlaces
    <3>4. cam' = [cam EXCEPT ![t] = to]
      BY <1>0, <3>2 DEF DetectionsTyped
    <3> QED BY <3>3, <3>4
  <2>3. UNCHANGED <<clock, buffer, channel, doubled, dropped, visitVars>> /\ cam[t].at = "deciding"
    BY <1>4 DEF Decide
  <2> HIDE DEF to
  <2>4. /\ \A u \in CameraThreads : u # t => cam'[u] = cam[u]
        /\ cam'[t] = to
    BY <1>0, <2>2 DEF DetectionsTyped
  <2>5. DetectionsTyped'
    <3>0. cam' \in [CameraThreads -> ThreadStates]
      BY <1>0, <2>2 DEF DetectionsTyped
    <3>1. lastEvent' \in Times
      <4>1. lastEvent' = cam[t].now
        BY <1>4
      <4> QED BY <1>t, <4>1
    <3>2. Len(stamp') <= MaxEvents /\ stamp' \in Seq(Stamps)
      BY <1>t, <2>1
    <3>3. UNCHANGED <<rowed, rowErrors>>
      BY <1>4
    <3> QED BY <1>0, <2>3, <3>0, <3>1, <3>2, <3>3 DEF DetectionsTyped
  <2>6. /\ \A u \in CameraThreads : u # t => Pending(u)' = Pending(u)
        /\ Pending(t)' = Pending(t) \union {e} /\ Pending(t) = ElementsOf(buffer[t])
    BY <2>2, <2>3, <2>4 DEF Pending, IsSending, ElementsOf
  <2>7. \A u \in CameraThreads : \A x \in Pending(u) : x \in 1 .. Len(stamp) /\ stamp[x].by = u
    BY <1>0 DEF EventsAreTheirThreads, IsEventOf
  <2>8. \A u : \A x : x \in 1 .. Len(stamp) /\ stamp[x].by = u => IsEventOf(x, u)'
    BY <1>t, <2>1 DEF IsEventOf
  <2>9. EventsAreTheirThreads'
    <3>1. ASSUME NEW u \in CameraThreads, NEW x \in Pending(u)' PROVE IsEventOf(x, u)'
      <4>1. CASE x \in Pending(u)
        BY <2>7, <2>8, <4>1
      <4>2. CASE x \notin Pending(u)
        <5>1. u = t /\ x = e
          BY <2>6, <3>1, <4>2
        <5> QED BY <1>t, <2>1, <5>1 DEF IsEventOf
      <4> QED BY <4>1, <4>2
    <3>2. ASSUME NEW u \in CameraThreads, cam'[u].at = "visiting"
          PROVE  cam'[u].event \in 1 .. Len(stamp') /\ stamp'[cam'[u].event].by = u
      <4>1. u # t /\ cam'[u] = cam[u]
        BY <2>2, <2>4, <3>2
      <4>2. cam[u].event \in 1 .. Len(stamp) /\ stamp[cam[u].event].by = u
        BY <1>0, <3>2, <4>1 DEF EventsAreTheirThreads, IsEventOf
      <4> QED BY <1>t, <2>1, <4>1, <4>2
    <3> QED BY <3>1, <3>2 DEF EventsAreTheirThreads, IsEventOf
  <2>10. BuffersAreBounded' /\ ClosersAreClosing'
    BY <1>0, <2>2, <2>3, <2>4 DEF BuffersAreBounded, ClosersAreClosing
  <2>11. BuffersRise'
    <3>1. \A x \in ElementsOf(buffer[t]) : x < e
      BY <1>t, <2>6, <2>7
    <3>2. \A u \in CameraThreads : u # t => (IsSending(u)' <=> IsSending(u))
      BY <2>4 DEF IsSending
    <3> QED BY <1>0, <2>2, <2>3, <2>4, <3>1, <3>2 DEF BuffersRise, IsRising, ElementsOf
  <2>12. \A k \in DOMAIN channel : channel[k] \in 1 .. Len(stamp) /\ stamp'[channel[k]] = stamp[channel[k]]
    BY <1>0, <2>1 DEF ChannelIsInOrder
  <2>13. ChannelIsInOrder'
    <3>1. ASSUME NEW k \in DOMAIN channel, NEW u \in CameraThreads, stamp[channel[k]].by = u, NEW x \in Pending(u)'
          PROVE  channel[k] <= x
      <4>1. CASE x \in Pending(u)
        BY <1>0, <3>1, <4>1 DEF ChannelIsInOrder
      <4>2. CASE x = e
        BY <1>t, <2>12, <4>2
      <4> QED BY <2>6, <3>1, <4>1, <4>2
    <3>2. \A k \in DOMAIN channel : channel[k] \in 1 .. Len(stamp')
      BY <1>t, <2>1, <2>12
    <3>3. \A i, j \in DOMAIN channel : i < j /\ stamp'[channel[i]].by = stamp'[channel[j]].by => channel[i] <= channel[j]
      BY <1>0, <2>12 DEF ChannelIsInOrder
    <3>4. \A k \in DOMAIN channel : stamp'[channel[k]].by = stamp[channel[k]].by /\ stamp[channel[k]].by \in CameraThreads
      BY <1>t, <2>12
    <3> QED BY <2>3, <3>1, <3>2, <3>3, <3>4 DEF ChannelIsInOrder
  <2>14. RepeatsAreCounted'
    <3>1. Published' = Published /\ Published \subseteq 1 .. Len(stamp)
      BY <2>3, <2>12 DEF Published
    <3>2. e \notin Published /\ AllPending' \subseteq AllPending \union {e} /\ AllPending \subseteq AllPending'
      BY <1>t, <2>6, <3>1 DEF AllPending
    <3>3. Published \intersect AllPending' = Published \intersect AllPending
      BY <3>2
    <3> QED BY <1>0, <2>3, <3>1, <3>3 DEF RepeatsAreCounted
  <2>15. EventsAreKnown'
    <3>1. Published' = Published /\ InBuffers' = InBuffers
      BY <2>3 DEF Published, InBuffers
    <3>2. AllPending \subseteq AllPending' /\ e \in AllPending'
      BY <2>6 DEF AllPending
    <3>3. Happened' \subseteq Happened \union {e}
      <4>1. Happened' = 1 .. e
        BY <2>1, LenProperties DEF Happened
      <4> QED BY <1>t, <4>1
    <3>4. \A u \in CameraThreads : cam'[u].at = "visiting" => cam'[u].event \in InBuffers \union Published \union dropped
      BY <1>0, <2>2, <2>4 DEF EventsAreKnown
    <3> QED BY <1>0, <2>3, <3>1, <3>2, <3>3, <3>4 DEF EventsAreKnown
  <2> QED BY <2>5, <2>9, <2>10, <2>11, <2>13, <2>14, <2>15 DEF PublicationInv
<1>5. ASSUME NEW t \in CameraThreads, SaveRow(t) PROVE PublicationInv'
  <2>1. PICK to : to = [cam[t] EXCEPT !.at = "publishing"]
    OBVIOUS
  <2>2. /\ to \in ThreadStates /\ to.at = "publishing" /\ to.event = cam[t].event /\ cam[t].at = "saving"
        /\ cam' = [cam EXCEPT ![t] = to]
        /\ UNCHANGED <<clock, lastEvent, stamp, publishVars, visitVars>>
    BY <1>5, <1>t, <2>1 DEF SaveRow, Goto, ThreadStates, ThreadPlaces
  <2>3. rowed' \in SUBSET Events /\ rowErrors' \in Nat
    <3>1. cam[t].event \in Events
      BY <1>0, <1>t, <2>2 DEF EventsAreTheirThreads, Pending, IsSending, IsEventOf, Events
    <3> QED BY <1>0, <1>5, <3>1 DEF SaveRow, DetectionsTyped
  <2>4. DetectionsTyped'
    BY <1>0, <2>2, <2>3 DEF DetectionsTyped
  <2>5. ClosersAreClosing'
    BY <1>0, <2>2 DEF ClosersAreClosing, DetectionsTyped
  <2> QED BY <1>1, <2>2, <2>4, <2>5 DEF IsSending
\* A step of a thread that publishes the first of what it has, or loses its reply.
<1>6. ASSUME NEW t \in CameraThreads, NEW to \in ThreadStates, NEW b \in Seq(Events), NEW x \in Pending(t),
             cam[t].at = "publishing", to.at \in {"publishing", "visiting"}, to.event = cam[t].event,
             cam' = [cam EXCEPT ![t] = to], buffer' = [buffer EXCEPT ![t] = b],
             Len(b) <= BufferMax, IsRising(b), ElementsOf(b) \subseteq Pending(t),
             to.at = "publishing" => \A e \in ElementsOf(b) : e < to.event,
             UNCHANGED <<clock, eventVars, visitVars>>,
             \/ channel' = channel /\ doubled' = doubled
             \/ /\ channel' = Append(channel, x) /\ \A e \in Pending(t) : x <= e
                /\ \/ doubled' = doubled + 1
                   \/ doubled' = doubled /\ x \notin ElementsOf(b) /\ (to.at = "publishing" => x # to.event),
             dropped \subseteq dropped',
             ElementsOf(buffer[t]) \union {cam[t].event} \subseteq
                 ElementsOf(b) \union (IF to.at = "publishing" THEN {to.event} ELSE {})
                   \union (IF channel' = channel THEN {} ELSE {x}) \union dropped',
             to.at = "publishing" => ElementsOf(buffer[t]) \subseteq ElementsOf(b) \union {x} /\ channel' = Append(channel, x)
      PROVE  PublicationInv'
  <2>1. IsSending(t) /\ x \in Events
    BY <1>0, <1>6, <1>t DEF IsSending, EventsAreTheirThreads, IsEventOf, Events
  <2>2. /\ Published \subseteq Published'
        /\ channel' = Append(channel, x) => x \in Published'
        /\ channel' \in Seq(Events)
    <3>1. CASE channel' = channel
      <4>1. Published' = Published /\ channel' # Append(channel, x)
        BY <1>0, <2>1, <3>1, AppendProperties, LenProperties DEF Published, DetectionsTyped
      <4> QED BY <1>0, <3>1, <4>1 DEF DetectionsTyped
    <3>2. CASE channel' = Append(channel, x)
      <4>1. /\ channel \in Seq(Events) /\ channel' \in Seq(Events) /\ Len(channel') = Len(channel) + 1 /\ Len(channel) \in Nat
            /\ \A i \in 1 .. Len(channel) : channel'[i] = channel[i]
            /\ channel'[Len(channel) + 1] = x
        BY <1>0, <2>1, <3>2, AppendProperties, LenProperties DEF DetectionsTyped
      <4>2. DOMAIN channel = 1 .. Len(channel) /\ DOMAIN channel' = 1 .. Len(channel) + 1
        BY <4>1, LenProperties
      <4>3. \A i \in 1 .. Len(channel) : i \in 1 .. Len(channel) + 1
        BY <4>1
      <4> QED BY <4>1, <4>2, <4>3 DEF Published
    <3> QED BY <1>6, <3>1, <3>2
  <2>3. ElementsOf(buffer[t]) \subseteq ElementsOf(b) \union Published' \union dropped'
    <3>1. CASE to.at = "publishing"
      BY <1>6, <2>2, <3>1
    <3>2. CASE to.at = "visiting"
      BY <1>6, <2>2, <3>2
    <3> QED BY <1>6, <3>1, <3>2
  <2>4. to.at = "visiting" => cam[t].event \in ElementsOf(b) \union Published' \union dropped'
    BY <1>6, <2>2
  <2>5. /\ \A u \in CameraThreads : Pending(u)' \subseteq Pending(u)
        /\ BuffersAreBounded' /\ EventsAreTheirThreads' /\ BuffersRise' /\ EventsAreKnown'
    BY <1>6, <2>1, <2>2, <2>3, <2>4, ThreadMoves
  <2>6. Pending(t)' = ElementsOf(b) \union (IF to.at = "publishing" THEN {to.event} ELSE {})
    <3>1. cam'[t] = to /\ buffer'[t] = b
      BY <1>0, <1>6 DEF DetectionsTyped
    <3> QED BY <1>6, <3>1 DEF Pending, IsSending, ElementsOf
  <2>7. ChannelIsInOrder' /\ RepeatsAreCounted'
    <3>1. CASE channel' = channel /\ doubled' = doubled
      BY <1>6, <2>5, <3>1, ChannelRests
    <3>2. CASE /\ channel' = Append(channel, x) /\ \A e \in Pending(t) : x <= e
               /\ \/ doubled' = doubled + 1
                  \/ doubled' = doubled /\ x \notin ElementsOf(b) /\ (to.at = "publishing" => x # to.event)
      <4>1. doubled' = doubled + 1 \/ (doubled' = doubled /\ x \notin Pending(t)')
        BY <2>6, <3>2
      <4> QED BY <1>6, <2>5, <3>2, <4>1, ChannelGrows
    <3> QED BY <1>6, <3>1, <3>2
  <2>8. doubled' \in Nat /\ cam' \in [CameraThreads -> ThreadStates] /\ buffer' \in [CameraThreads -> Seq(Events)]
    BY <1>0, <1>6 DEF DetectionsTyped
  <2>9. DetectionsTyped'
    BY <1>0, <1>6, <2>2, <2>8 DEF DetectionsTyped
  <2>10. ClosersAreClosing'
    BY <1>0, <1>6 DEF ClosersAreClosing, DetectionsTyped
  <2> QED BY <2>5, <2>7, <2>9, <2>10 DEF PublicationInv
<1>7. ASSUME NEW t \in CameraThreads, FlushOne(t) PROVE PublicationInv'
  <2> DEFINE x == Head(buffer[t])
             b == Tail(buffer[t])
  <2>1. /\ b \in Seq(Events) /\ IsRising(b) /\ Len(b) = Len(buffer[t]) - 1
        /\ x \in ElementsOf(buffer[t]) /\ \A e \in ElementsOf(buffer[t]) : x <= e
        /\ ElementsOf(b) = ElementsOf(buffer[t]) \ {x}
    BY <1>7, <1>t, TailRises DEF FlushOne
  <2>2. /\ cam[t].at = "publishing" /\ channel' = Append(channel, x) /\ buffer' = [buffer EXCEPT ![t] = b]
        /\ UNCHANGED <<clock, cam, eventVars, visitVars, publishErrors, dropped, doubled>>
    BY <1>0, <1>7 DEF FlushOne, DetectionsTyped
  <2> HIDE DEF x, b
  <2>3. /\ Pending(t) = ElementsOf(buffer[t]) \union {cam[t].event}
        /\ \A e \in ElementsOf(buffer[t]) : e < cam[t].event
    BY <1>0, <2>2 DEF Pending, IsSending, BuffersRise
  <2>4. x \in Nat /\ cam[t].event \in Nat
    <3>1. x \in Pending(t)
      BY <2>1, <2>3
    <3>2. x \in 1 .. Len(stamp)
      BY <1>0, <3>1 DEF EventsAreTheirThreads, IsEventOf
    <3> QED BY <1>t, <3>2
  <2>5. x # cam[t].event /\ x <= cam[t].event
    BY <2>1, <2>3, <2>4
  <2>6. cam' = [cam EXCEPT ![t] = cam[t]]
    BY <1>0, <2>2 DEF DetectionsTyped
  <2>7. Len(b) <= BufferMax
    BY <1>t, <2>1 DEF DetectionsAssumption
  <2>8. channel' # channel
    BY <1>0, <1>t, <2>1, <2>2, AppendProperties, LenProperties DEF DetectionsTyped, EventsAreTheirThreads, IsEventOf, Pending, Events
  <2> QED BY <1>6, <1>t, <2>1, <2>2, <2>3, <2>5, <2>6, <2>7, <2>8
<1>8. ASSUME NEW t \in CameraThreads, Publish(t) PROVE PublicationInv'
  <2>1. PICK to : to = [cam[t] EXCEPT !.at = "visiting"]
    OBVIOUS
  <2>2. /\ to \in ThreadStates /\ to.at = "visiting" /\ to.event = cam[t].event /\ cam[t].at = "publishing"
        /\ cam' = [cam EXCEPT ![t] = to] /\ buffer[t] = <<>> /\ channel' = Append(channel, cam[t].event)
        /\ UNCHANGED <<clock, eventVars, visitVars, buffer, publishErrors, dropped, doubled>>
    BY <1>8, <1>t, <2>1 DEF Publish, Goto, ThreadStates, ThreadPlaces
  <2>3. /\ ElementsOf(buffer[t]) = {} /\ Pending(t) = {cam[t].event} /\ buffer' = [buffer EXCEPT ![t] = buffer[t]]
        /\ cam[t].event \in Nat
    <3>1. ElementsOf(buffer[t]) = {}
      BY <2>2 DEF ElementsOf
    <3> QED BY <1>0, <1>t, <2>2, <3>1 DEF Pending, IsSending, DetectionsTyped
  <2>4. channel' # channel
    BY <1>0, <1>t, <2>2, <2>3, AppendProperties, LenProperties DEF DetectionsTyped, EventsAreTheirThreads, IsEventOf, Events
  <2>5. /\ Len(buffer[t]) <= BufferMax /\ IsRising(buffer[t]) /\ ElementsOf(buffer[t]) \subseteq Pending(t)
        /\ \A e \in Pending(t) : cam[t].event <= e
        /\ cam[t].event \in Pending(t) /\ cam[t].event \notin ElementsOf(buffer[t])
        /\ buffer[t] \in Seq(Events) /\ to.at # "publishing" /\ dropped' = dropped /\ doubled' = doubled
    BY <1>t, <2>2, <2>3
  <2>6. ElementsOf(buffer[t]) \union {cam[t].event} \subseteq
            ElementsOf(buffer[t]) \union (IF to.at = "publishing" THEN {to.event} ELSE {})
              \union (IF channel' = channel THEN {} ELSE {cam[t].event}) \union dropped'
    BY <2>4
  <2> QED BY <1>6, <2>2, <2>3, <2>5, <2>6
<1>9. ASSUME NEW t \in CameraThreads, PublishFails(t) PROVE PublicationInv'
  <2> DEFINE a == Append(buffer[t], cam[t].event)
             x == Head(a)
             b == Buffered(t, cam[t].event)
  <2>1. PICK to : to = [cam[t] EXCEPT !.at = "visiting"]
    OBVIOUS
  <2>2. /\ to \in ThreadStates /\ to.at = "visiting" /\ to.event = cam[t].event /\ cam[t].at = "publishing"
        /\ cam' = [cam EXCEPT ![t] = to] /\ buffer' = [buffer EXCEPT ![t] = b]
        /\ \/ channel' = Append(channel, x) /\ doubled' = doubled + 1
           \/ UNCHANGED <<channel, doubled>>
        /\ dropped' = (IF Len(b) > Len(buffer[t]) THEN dropped ELSE dropped \union {Head(buffer[t])})
        /\ UNCHANGED <<clock, eventVars, visitVars>>
    BY <1>9, <1>t, <2>1 DEF PublishFails, Goto, ThreadStates, ThreadPlaces
  <2>3. /\ Pending(t) = ElementsOf(buffer[t]) \union {cam[t].event}
        /\ \A e \in ElementsOf(buffer[t]) : e < cam[t].event
    BY <1>0, <2>2 DEF Pending, IsSending, BuffersRise
  <2>4. cam[t].event \in Events
    <3>1. cam[t].event \in 1 .. Len(stamp)
      BY <1>0, <2>3 DEF EventsAreTheirThreads, IsEventOf
    <3> QED BY <1>t, <3>1 DEF Events, DetectionsAssumption
  <2>5. /\ a \in Seq(Events) /\ IsRising(a) /\ a # <<>> /\ Len(a) = Len(buffer[t]) + 1
        /\ ElementsOf(a) = Pending(t)
        /\ buffer[t] # <<>> => Head(a) = Head(buffer[t])
    BY <1>t, <2>3, <2>4, AppendRises
  <2>6. b = (IF Len(a) > BufferMax THEN Tail(a) ELSE a)
    BY DEF Buffered
  <2> HIDE DEF a, b
  <2>7. /\ x \in Pending(t) /\ \A e \in Pending(t) : x <= e
        /\ Tail(a) \in Seq(Events) /\ IsRising(Tail(a)) /\ Len(Tail(a)) = Len(a) - 1
        /\ ElementsOf(Tail(a)) = Pending(t) \ {x}
    BY <1>t, <2>5, TailRises
  <2>8. /\ b \in Seq(Events) /\ IsRising(b) /\ Len(b) <= BufferMax /\ ElementsOf(b) \subseteq Pending(t)
    BY <1>t, <2>5, <2>6, <2>7 DEF DetectionsAssumption
  <2>9. Pending(t) \subseteq ElementsOf(b) \union dropped' /\ dropped \subseteq dropped'
    <3>1. CASE Len(a) > BufferMax
      <4>1. b = Tail(a) /\ Len(b) = Len(buffer[t])
        BY <1>t, <2>5, <2>6, <2>7, <3>1
      <4>2. buffer[t] # <<>>
        <5>1. Len(<<>>) = 0
          OBVIOUS
        <5> QED BY <1>t, <2>5, <3>1, <5>1 DEF DetectionsAssumption
      <4>3. dropped' = dropped \union {x}
        BY <1>t, <2>2, <2>5, <4>1, <4>2
      <4> QED BY <2>7, <4>1, <4>3
    <3>2. CASE ~(Len(a) > BufferMax)
      <4>1. b = a /\ dropped' = dropped
        BY <1>t, <2>2, <2>5, <2>6, <3>2
      <4> QED BY <2>5, <4>1
    <3> QED BY <3>1, <3>2
  <2> HIDE DEF x
  <2>10. ElementsOf(buffer[t]) \union {cam[t].event} \subseteq
            ElementsOf(b) \union (IF to.at = "publishing" THEN {to.event} ELSE {})
              \union (IF channel' = channel THEN {} ELSE {x}) \union dropped'
    BY <2>3, <2>9
  <2>11. to.at # "publishing"
    BY <2>2
  <2> QED BY <1>6, <2>2, <2>7, <2>8, <2>9, <2>10, <2>11
<1>10. ASSUME NEW t \in CameraThreads, ThreadEnds(t) PROVE PublicationInv'
  <2>1. /\ cam[t].at = "idle" /\ dropped' = dropped \union ElementsOf(buffer[t])
        /\ buffer' = [buffer EXCEPT ![t] = <<>>] /\ cam' = [cam EXCEPT ![t] = cam[t]]
        /\ UNCHANGED <<clock, cam, eventVars, visitVars, channel, publishErrors, doubled>>
    BY <1>0, <1>10 DEF ThreadEnds, ElementsOf, DetectionsTyped
  <2>2. <<>> \in Seq(Events) /\ Len(<<>>) <= BufferMax /\ IsRising(<<>>) /\ ElementsOf(<<>>) = {}
    BY DEF IsRising, ElementsOf, DetectionsAssumption
  <2>3. Published' = Published
    BY <2>1 DEF Published
  <2>4. /\ \A u \in CameraThreads : Pending(u)' \subseteq Pending(u)
        /\ BuffersAreBounded' /\ EventsAreTheirThreads' /\ BuffersRise' /\ EventsAreKnown'
    BY <2>1, <2>2, <2>3, ThreadMoves DEF IsSending
  <2>5. ChannelIsInOrder' /\ RepeatsAreCounted'
    BY <2>1, <2>4, ChannelRests
  <2>6. DetectionsTyped' /\ ClosersAreClosing'
    BY <1>0, <2>1, <2>2 DEF DetectionsTyped, ClosersAreClosing
  <2> QED BY <2>4, <2>5, <2>6 DEF PublicationInv
<1>11. ASSUME NEW t \in CameraThreads, RecordVisit(t) PROVE PublicationInv'
  <2> DEFINE e == cam[t].event
             over == Over(visit, stamp[e].time)
             place == IF over THEN "closing" ELSE "idle"
  <2>1. PICK to : to = [cam[t] EXCEPT !.at = place]
    OBVIOUS
  <2>2. /\ to \in ThreadStates /\ to.at \in {"closing", "idle"} /\ (over => to.at = "closing") /\ cam[t].at = "visiting"
        /\ cam' = [cam EXCEPT ![t] = to]
        /\ visit' = (IF visit = NoVisit \/ over THEN Started(e)
                     ELSE [visit EXCEPT !.last = stamp[e].time, !.of = @ \union {e}])
        /\ closing' = [closing EXCEPT ![t] = IF over THEN visit ELSE NoVisit]
        /\ late' = (late \/ (visit # NoVisit /\ stamp[e].time < visit.last))
        /\ UNCHANGED <<clock, eventVars, publishVars, sessions, unvisited>>
    BY <1>11, <1>t, <2>1 DEF RecordVisit, Goto, ThreadStates, ThreadPlaces
  <2>3. e \in Events /\ stamp[e].time \in Times
    <3>1. e \in 1 .. Len(stamp)
      BY <1>0, <2>2 DEF EventsAreTheirThreads, IsEventOf
    <3> QED BY <1>t, <3>1 DEF Events, DetectionsAssumption
  <2> HIDE DEF e, over
  <2>4. visit' \in VisitRecords
    <3>1. Started(e) \in VisitRecords /\ visit \in VisitRecords
      BY <1>0, <2>3 DEF Started, VisitRecords, DetectionsTyped
    <3>2. [visit EXCEPT !.last = stamp[e].time, !.of = @ \union {e}] \in VisitRecords
      BY <2>3, <3>1 DEF VisitRecords
    <3> QED BY <2>2, <3>1, <3>2
  <2>5. closing' \in [Writers -> VisitRecords] /\ late' \in BOOLEAN
    BY <1>0, <1>t, <2>2 DEF DetectionsTyped
  <2>6. DetectionsTyped'
    BY <1>0, <2>2, <2>4, <2>5 DEF DetectionsTyped
  <2>7. ClosersAreClosing'
    BY <1>0, <1>t, <2>2 DEF ClosersAreClosing, DetectionsTyped
  <2> QED BY <1>1, <2>2, <2>6, <2>7 DEF IsSending
\* A step that leaves the threads alone.
<1>12. ASSUME UNCHANGED <<cam, buffer, channel, stamp, doubled, dropped>>, DetectionsTyped', ClosersAreClosing' PROVE PublicationInv'
  <2>1. \A u \in CameraThreads : Pending(u)' = Pending(u)
    BY <1>12 DEF Pending, IsSending, ElementsOf
  <2>2. ChannelIsInOrder' /\ RepeatsAreCounted'
    BY <1>12, <2>1, ChannelRests
  <2>3. BuffersAreBounded' /\ EventsAreTheirThreads'
    BY <1>0, <1>12, <2>1 DEF BuffersAreBounded, EventsAreTheirThreads, IsEventOf
  <2>4. BuffersRise'
    BY <1>0, <1>12 DEF BuffersRise, IsRising, IsSending, ElementsOf
  <2>5. EventsAreKnown'
    <3>1. AllPending' = AllPending /\ Published' = Published /\ InBuffers' = InBuffers /\ Happened' = Happened
      BY <1>12, <2>1 DEF AllPending, Published, InBuffers, Happened
    <3> QED BY <1>0, <1>12, <3>1 DEF EventsAreKnown
  <2> QED BY <1>12, <2>2, <2>3, <2>4, <2>5 DEF PublicationInv
<1>13. ASSUME FlushExpired PROVE PublicationInv'
  <2>1. DetectionsTyped'
    BY <1>0, <1>13, <1>t DEF FlushExpired, DetectionsTyped
  <2>2. ClosersAreClosing'
    BY <1>0, <1>13, <1>t DEF FlushExpired, ClosersAreClosing, DetectionsTyped
  <2> QED BY <1>12, <1>13, <2>1, <2>2 DEF FlushExpired
<1>14. ASSUME NEW w \in DOMAIN closing, PersistVisit(w) PROVE PublicationInv'
  <2>0. w \in Writers /\ closing[w] \in VisitRecords /\ (w # Main => w \in CameraThreads)
    BY <1>0, <1>14 DEF DetectionsTyped, Writers
  <2>1. /\ closing[w] # NoVisit /\ sessions' \in SUBSET VisitRecords /\ rowErrors' \in Nat
        /\ closing' = [closing EXCEPT ![w] = NoVisit]
        /\ cam' = (IF w = Main THEN cam ELSE [cam EXCEPT ![w].at = "idle"])
        /\ UNCHANGED <<clock, lastEvent, stamp, rowed, publishVars, visit, late>>
    BY <1>0, <1>14, <2>0 DEF PersistVisit, DetectionsTyped
  <2>2. closing' \in [Writers -> VisitRecords]
    BY <1>0, <1>t, <2>1 DEF DetectionsTyped
  <2>3. CASE w = Main
    <3>1. DetectionsTyped'
      BY <1>0, <2>1, <2>2, <2>3 DEF DetectionsTyped
    <3>2. ClosersAreClosing'
      BY <1>0, <1>t, <2>0, <2>1, <2>3 DEF ClosersAreClosing, DetectionsTyped
    <3> QED BY <1>12, <2>1, <2>3, <3>1, <3>2
  <2>4. CASE w # Main
    <3>1. PICK to : to = [cam[w] EXCEPT !.at = "idle"]
      OBVIOUS
    <3>2. /\ w \in CameraThreads /\ to \in ThreadStates /\ to.at = "idle" /\ cam[w].at = "closing"
          /\ cam' = [cam EXCEPT ![w] = to]
      BY <1>0, <1>t, <2>0, <2>1, <2>4, <3>1 DEF ThreadStates, ThreadPlaces, ClosersAreClosing
    <3>3. DetectionsTyped'
      BY <1>0, <2>1, <2>2, <3>2 DEF DetectionsTyped
    <3>4. ClosersAreClosing'
      BY <1>0, <2>0, <2>1, <3>2 DEF ClosersAreClosing, DetectionsTyped
    <3> QED BY <1>1, <2>1, <3>2, <3>3, <3>4 DEF IsSending
  <2> QED BY <2>3, <2>4
<1>15. ASSUME Shutdown PROVE PublicationInv'
  <2>1. /\ sessions' = (IF visit = NoVisit THEN sessions ELSE sessions \union {visit}) /\ visit' = NoVisit
        /\ dropped' = dropped \union InBuffers \union Working
        /\ buffer' = [t \in CameraThreads |-> <<>>] /\ cam' = [t \in CameraThreads |-> Nothing] /\ lastEvent' = 0
        /\ late' = (late \/ visit # NoVisit)
        /\ UNCHANGED <<clock, stamp, rowed, rowErrors, channel, publishErrors, doubled, closing>>
        /\ \A w \in DOMAIN closing : closing[w] = NoVisit
    BY <1>15 DEF Shutdown
  <2>2. <<>> \in Seq(Events) /\ Len(<<>>) <= BufferMax /\ IsRising(<<>>) /\ ElementsOf(<<>>) = {}
    BY DEF IsRising, ElementsOf, DetectionsAssumption
  <2>3. Nothing \in ThreadStates /\ Nothing.at = "idle" /\ 0 \in Times
    BY DEF Nothing, ThreadStates, ThreadPlaces, Times, DetectionsAssumption
  <2>4. \A u \in CameraThreads : cam'[u].at = "idle" /\ buffer'[u] = <<>>
    BY <2>1, <2>3
  <2>5. DetectionsTyped'
    BY <1>0, <1>t, <2>1, <2>2, <2>3 DEF DetectionsTyped
  <2>6. \A u \in CameraThreads : ~IsSending(u)' /\ Pending(u)' = {}
    BY <2>2, <2>4 DEF Pending, IsSending, ElementsOf
  <2>7. ChannelIsInOrder' /\ RepeatsAreCounted'
    BY <2>1, <2>6, ChannelRests
  <2>8. BuffersAreBounded' /\ EventsAreTheirThreads'
    BY <2>2, <2>4, <2>6 DEF BuffersAreBounded, EventsAreTheirThreads
  <2>9. BuffersRise'
    BY <2>2, <2>4, <2>6 DEF BuffersRise, IsRising
  <2>10. EventsAreKnown'
    <3>1. AllPending \subseteq Working \union InBuffers
      BY DEF AllPending, Pending, IsSending, Working, InBuffers, ElementsOf
    <3>2. Published' = Published /\ Happened' = Happened
      BY <2>1 DEF Published, Happened
    <3> QED BY <1>0, <2>1, <2>4, <3>1, <3>2 DEF EventsAreKnown
  <2>11. ClosersAreClosing'
    BY <1>0, <1>t, <2>1 DEF ClosersAreClosing, DetectionsTyped
  <2> QED BY <2>5, <2>7, <2>8, <2>9, <2>10, <2>11 DEF PublicationInv
<1>16. ASSUME DetectionsTick PROVE PublicationInv'
  <2>1. DetectionsTyped'
    BY <1>0, <1>16 DEF DetectionsTick, DetectionsTyped, Times, DetectionsAssumption
  <2>2. ClosersAreClosing'
    BY <1>0, <1>16 DEF DetectionsTick, ClosersAreClosing
  <2> QED BY <1>12, <1>16, <2>1, <2>2 DEF DetectionsTick
<1>17. ASSUME UNCHANGED detectionVars PROVE PublicationInv'
  <2>1. DetectionsTyped' /\ ClosersAreClosing'
    BY <1>0, <1>17 DEF detectionVars, DetectionsTyped, ClosersAreClosing
  <2> QED BY <1>12, <1>17, <2>1 DEF detectionVars
<1>18. ASSUME NEW t \in CameraThreads, Decide(t) PROVE PublicationInv'
  BY <1>3, <1>4, <1>18 DEF Decide
<1> QED
  BY <1>2, <1>5, <1>7, <1>8, <1>9, <1>10, <1>11, <1>13, <1>14, <1>15, <1>16, <1>17, <1>18 DEF DetectionsNext

\* The visits that are over, written or about to be.
Closed == (sessions \union {closing[w] : w \in Writers}) \ {NoVisit}
InVisits == visit.of \union UNION {c.of : c \in Closed}
IsWorking(t) == cam[t].at \in {"saving", "publishing", "visiting"}

\* No event is in two visits, and none is in one before its thread has told of it.
VisitsAreDisjoint ==
    /\ \A c \in Closed : visit.of \intersect c.of = {}
    /\ \A c, d \in Closed : c = d \/ c.of \intersect d.of = {}
    /\ \A t \in CameraThreads : IsWorking(t) => cam[t].event \notin InVisits
    /\ InVisits \subseteq 1 .. Len(stamp)
EventsAreTold ==
    \A e \in 1 .. Len(stamp) :
        e \in unvisited \/ e \in InVisits \/ \E t \in CameraThreads : IsWorking(t) /\ cam[t].event = e

\* While the tracker is told in order, what is over was so long before the visit
\* that goes on, or, when there is none, before any that can start.
AreApart(c, d) == c.last + VisitTimeout <= d.start \/ d.last + VisitTimeout <= c.start
VisitsAreInTime ==
    /\ visit # NoVisit => visit.start <= visit.last /\ visit.last <= clock
    /\ \A c \in Closed : c.start <= c.last
    /\ \A c, d \in Closed : c = d \/ AreApart(c, d)
    /\ visit # NoVisit => \A c \in Closed : c.last + VisitTimeout <= visit.start
    /\ visit = NoVisit => \A c \in Closed :
           /\ c.last + VisitTimeout <= clock
           /\ \A t \in CameraThreads : IsWorking(t) => c.last + VisitTimeout <= stamp[cam[t].event].time

VisitInv ==
    /\ VisitsAreDisjoint /\ EventsAreTold
    /\ late \/ VisitsAreInTime
    /\ NoVisit \notin sessions
    /\ \A e \in 1 .. Len(stamp) : stamp[e].time <= clock

\* Nothing about a visit changes, but that time may pass.
LEMMA VisitsRest ==
    ASSUME DetectionsAssumption, PublicationInv, VisitInv, UNCHANGED <<stamp, visit, unvisited, late>>,
           Closed' = Closed, NoVisit \notin sessions', clock' \in Times, clock <= clock',
           \A t \in CameraThreads : /\ IsWorking(t)' <=> IsWorking(t)
                                    /\ IsWorking(t) => cam'[t].event = cam[t].event
    PROVE  VisitInv'
<1> USE DEF VisitInv
<1>0. /\ clock \in Nat /\ clock' \in Nat /\ VisitTimeout \in Nat
      /\ \A c \in Closed \union {visit} : c.start \in Nat /\ c.last \in Nat
      /\ \A e \in 1 .. Len(stamp) : stamp[e].time \in Nat
  <2>1. Closed \union {visit} \subseteq VisitRecords /\ clock \in Times
    BY DEF PublicationInv, DetectionsTyped, Closed
  <2> QED BY <2>1, PublicationTypes DEF VisitRecords, Times, DetectionsAssumption
<1>1. InVisits' = InVisits
  BY DEF InVisits
<1>2. VisitsAreDisjoint'
  BY <1>1 DEF VisitsAreDisjoint
<1>3. EventsAreTold'
  BY <1>1 DEF EventsAreTold
<1>4. ASSUME VisitsAreInTime PROVE VisitsAreInTime'
  <2>1. visit' # NoVisit => visit'.start <= visit'.last /\ visit'.last <= clock'
    BY <1>0, <1>4 DEF VisitsAreInTime
  <2>2. /\ \A c \in Closed' : c.start <= c.last
        /\ \A c, d \in Closed' : c = d \/ AreApart(c, d)
        /\ visit' # NoVisit => \A c \in Closed' : c.last + VisitTimeout <= visit'.start
    BY <1>4 DEF VisitsAreInTime
  <2>3. visit' = NoVisit => \A c \in Closed' : c.last + VisitTimeout <= clock'
    BY <1>0, <1>4 DEF VisitsAreInTime
  <2>4. visit' = NoVisit => \A c \in Closed' : \A t \in CameraThreads : IsWorking(t)' => c.last + VisitTimeout <= stamp'[cam'[t].event].time
    BY <1>4 DEF VisitsAreInTime
  <2> QED BY <2>1, <2>2, <2>3, <2>4 DEF VisitsAreInTime, AreApart
<1>5. \A e \in 1 .. Len(stamp') : stamp'[e].time <= clock'
  BY <1>0
<1> QED BY <1>2, <1>3, <1>4, <1>5

LEMMA VisitStep ==
    ASSUME DetectionsAssumption, PublicationInv, PublicationInv', VisitInv, [DetectionsNext]_detectionVars PROVE VisitInv'
<1> USE DEF VisitInv, eventVars, publishVars, visitVars
<1>0. /\ clock \in Nat /\ VisitTimeout \in Nat /\ clock \in Times
      /\ \A c \in Closed \union {visit} : c \in VisitRecords /\ c.start \in Nat /\ c.last \in Nat /\ c.of \in SUBSET Events
      /\ Len(stamp) \in Nat /\ Len(stamp) <= MaxEvents
      /\ \A e \in 1 .. Len(stamp) : stamp[e].time \in Nat
      /\ cam \in [CameraThreads -> ThreadStates] /\ closing \in [Writers -> VisitRecords]
      /\ DOMAIN closing = Writers /\ stamp \in Seq(Stamps)
      /\ \A t \in CameraThreads : cam[t].at \in ThreadPlaces
  <2>1. /\ Closed \union {visit} \subseteq VisitRecords /\ clock \in Times /\ stamp \in Seq(Stamps)
        /\ cam \in [CameraThreads -> ThreadStates] /\ closing \in [Writers -> VisitRecords]
    BY DEF PublicationInv, DetectionsTyped, Closed
  <2>2. \A c \in VisitRecords : c.start \in Nat /\ c.last \in Nat /\ c.of \in SUBSET Events
    BY DEF VisitRecords, Times, DetectionsAssumption
  <2>3. Len(stamp) \in Nat /\ Len(stamp) <= MaxEvents /\ \A e \in 1 .. Len(stamp) : stamp[e].time \in Nat
    BY PublicationTypes DEF Times, DetectionsAssumption
  <2>4. clock \in Nat /\ VisitTimeout \in Nat
    BY <2>1 DEF Times, DetectionsAssumption
  <2>5. \A t \in CameraThreads : cam[t].at \in ThreadPlaces
    BY PublicationTypes
  <2> QED BY <2>1, <2>2, <2>3, <2>4, <2>5
<1>e. \A t \in CameraThreads : IsWorking(t) => cam[t].event \in 1 .. Len(stamp) /\ stamp[cam[t].event].by = t
  BY DEF PublicationInv, EventsAreTheirThreads, Pending, IsSending, IsWorking, IsEventOf
<1>1. ASSUME UNCHANGED <<clock, stamp, visitVars>>, NEW t \in CameraThreads,
             \/ cam' = cam
             \/ \E to : cam' = [cam EXCEPT ![t].at = to] /\ (to \in {"saving", "publishing", "visiting"} <=> IsWorking(t))
             \/ cam' = [cam EXCEPT ![t] = [at |-> "deciding", now |-> clock, event |-> 0]] /\ ~IsWorking(t)
      PROVE  VisitInv'
  <2>1. Closed' = Closed
    BY <1>1 DEF Closed
  <2>2. \A u \in CameraThreads : /\ IsWorking(u)' <=> IsWorking(u)
                                 /\ IsWorking(u) => cam'[u].event = cam[u].event
    <3>1. CASE cam' = cam
      BY <3>1 DEF IsWorking
    <3>2. ASSUME NEW to, cam' = [cam EXCEPT ![t].at = to], to \in {"saving", "publishing", "visiting"} <=> IsWorking(t)
          PROVE  \A u \in CameraThreads : /\ IsWorking(u)' <=> IsWorking(u)
                                          /\ IsWorking(u) => cam'[u].event = cam[u].event
      <4>1. /\ \A u \in CameraThreads : u # t => cam'[u] = cam[u]
            /\ cam'[t].at = to /\ cam'[t].event = cam[t].event
        BY <1>0, <3>2 DEF ThreadStates
      <4> QED BY <3>2, <4>1 DEF IsWorking
    <3>3. CASE cam' = [cam EXCEPT ![t] = [at |-> "deciding", now |-> clock, event |-> 0]] /\ ~IsWorking(t)
      BY <1>0, <3>3 DEF IsWorking
    <3> QED BY <1>1, <3>1, <3>2, <3>3
  <2> QED BY <1>0, <1>1, <2>1, <2>2, VisitsRest
<1>2. ASSUME NEW t \in CameraThreads, Detect(t) \/ SaveRow(t) \/ FlushOne(t) \/ Publish(t) \/ PublishFails(t) \/ ThreadEnds(t)
      PROVE  VisitInv'
  <2>1. UNCHANGED <<clock, stamp, visitVars>>
    BY <1>2 DEF Detect, SaveRow, FlushOne, Publish, PublishFails, ThreadEnds
  <2>2. CASE Detect(t)
    BY <1>1, <2>1, <2>2 DEF Detect, IsWorking
  <2>3. CASE SaveRow(t)
    <3>1. cam' = [cam EXCEPT ![t].at = "publishing"] /\ IsWorking(t)
      BY <2>3 DEF SaveRow, Goto, IsWorking
    <3> QED BY <1>1, <2>1, <3>1
  <2>4. CASE FlushOne(t) \/ ThreadEnds(t)
    BY <1>1, <2>1, <2>4 DEF FlushOne, ThreadEnds
  <2>5. CASE Publish(t) \/ PublishFails(t)
    <3>1. cam' = [cam EXCEPT ![t].at = "visiting"] /\ IsWorking(t)
      BY <2>5 DEF Publish, PublishFails, Goto, IsWorking
    <3> QED BY <1>1, <2>1, <3>1
  <2> QED BY <1>2, <2>2, <2>3, <2>4, <2>5
<1>3. ASSUME NEW t \in CameraThreads, Decide(t), Suppressed(cam[t].now), Goto(t, "idle"), UNCHANGED eventVars PROVE VisitInv'
  <2>1. UNCHANGED <<clock, stamp, visitVars>> /\ cam' = [cam EXCEPT ![t].at = "idle"] /\ ~IsWorking(t)
    BY <1>3 DEF Decide, Goto, IsWorking
  <2>2. "idle" \in {"saving", "publishing", "visiting"} <=> IsWorking(t)
    BY <2>1
  <2> QED BY <1>1, <2>1, <2>2
<1>4. ASSUME NEW t \in CameraThreads, Decide(t), stamp' = Append(stamp, [time |-> clock, by |-> t]),
             cam' = [cam EXCEPT ![t].at = "saving", ![t].event = Len(stamp')]
      PROVE  VisitInv'
  <2> DEFINE e == Len(stamp) + 1
  <2>1. /\ Len(stamp') = e /\ \A i \in 1 .. Len(stamp) : stamp'[i] = stamp[i]
        /\ stamp'[e].time = clock
    <3>1. [time |-> clock, by |-> t] \in Stamps
      BY <1>0 DEF Stamps
    <3> QED BY <1>0, <1>4, <3>1, AppendProperties
  <2>2. /\ \A u \in CameraThreads : u # t => cam'[u] = cam[u]
        /\ cam'[t].at = "saving" /\ cam'[t].event = e
    <3>1. cam' = [cam EXCEPT ![t].at = "saving", ![t].event = e]
      BY <1>4, <2>1
    <3> HIDE DEF e
    <3> QED BY <1>0, <3>1 DEF ThreadStates
  <2>3. UNCHANGED <<clock, visitVars>> /\ ~IsWorking(t)
    BY <1>4 DEF Decide, IsWorking
  <2>4. Closed' = Closed /\ InVisits' = InVisits /\ e \notin 1 .. Len(stamp)
    BY <1>0, <2>3 DEF Closed, InVisits
  <2>5. /\ \A u \in CameraThreads : u # t => (IsWorking(u)' <=> IsWorking(u)) /\ cam'[u].event = cam[u].event
        /\ IsWorking(t)'
    BY <2>2 DEF IsWorking
  <2>6. \A i \in 1 .. Len(stamp) : i \in 1 .. Len(stamp')
    BY <1>0, <2>1
  <2>7. VisitsAreDisjoint'
    <3>1. \A u \in CameraThreads : IsWorking(u)' => cam'[u].event \notin InVisits
      BY <2>2, <2>4, <2>5 DEF VisitsAreDisjoint
    <3>2. InVisits \subseteq 1 .. Len(stamp')
      BY <2>6 DEF VisitsAreDisjoint
    <3> QED BY <2>3, <2>4, <3>1, <3>2 DEF VisitsAreDisjoint
  <2>8. EventsAreTold'
    <3>1. ASSUME NEW i \in 1 .. Len(stamp')
          PROVE  i \in unvisited \/ i \in InVisits \/ \E u \in CameraThreads : IsWorking(u)' /\ cam'[u].event = i
      <4>1. CASE i = e
        BY <2>2, <2>5, <4>1
      <4>2. CASE i # e
        <5>1. i \in 1 .. Len(stamp)
          BY <1>0, <2>1, <4>2
        <5>2. i \in unvisited \/ i \in InVisits \/ \E u \in CameraThreads : IsWorking(u) /\ cam[u].event = i
          BY <5>1 DEF EventsAreTold
        <5> QED BY <2>3, <2>5, <5>2
      <4> QED BY <4>1, <4>2
    <3> QED BY <2>3, <2>4, <3>1 DEF EventsAreTold
  <2>9. ASSUME VisitsAreInTime PROVE VisitsAreInTime'
    <3>1. ASSUME visit = NoVisit, NEW c \in Closed, NEW u \in CameraThreads, IsWorking(u)'
          PROVE  c.last + VisitTimeout <= stamp'[cam'[u].event].time
      <4>1. CASE u = t
        BY <2>1, <2>2, <2>9, <3>1, <4>1 DEF VisitsAreInTime
      <4>2. CASE u # t
        BY <1>e, <2>1, <2>5, <2>9, <3>1, <4>2 DEF VisitsAreInTime
      <4> QED BY <4>1, <4>2
    <3> QED BY <2>3, <2>4, <2>9, <3>1 DEF VisitsAreInTime, AreApart
  <2>10. \A i \in 1 .. Len(stamp') : stamp'[i].time <= clock'
    <3>1. \A i \in 1 .. Len(stamp') : i \in 1 .. Len(stamp) \/ i = e
      BY <1>0, <2>1
    <3>2. \A i \in 1 .. Len(stamp) : stamp[i].time <= clock
      OBVIOUS
    <3>3. clock <= clock
      BY <1>0
    <3> QED BY <2>1, <2>3, <3>1, <3>2, <3>3
  <2> QED BY <2>3, <2>7, <2>8, <2>9, <2>10
<1>5. ASSUME NEW t \in CameraThreads, RecordVisit(t) PROVE VisitInv'
  <2> DEFINE e == cam[t].event
             now == stamp[e].time
             over == Over(visit, now)
             place == IF over THEN "closing" ELSE "idle"
  <2>1. /\ cam[t].at = "visiting" /\ IsWorking(t) /\ cam' = [cam EXCEPT ![t].at = place]
        /\ visit' = (IF visit = NoVisit \/ over THEN Started(e) ELSE [visit EXCEPT !.last = now, !.of = @ \union {e}])
        /\ closing' = [closing EXCEPT ![t] = IF over THEN visit ELSE NoVisit]
        /\ late' = (late \/ (visit # NoVisit /\ now < visit.last))
        /\ UNCHANGED <<clock, stamp, sessions, unvisited>>
    BY <1>5 DEF RecordVisit, Goto, IsWorking
  <2>2. e \in 1 .. Len(stamp) /\ now \in Nat /\ now <= clock /\ stamp[e].by = t
    BY <1>0, <1>e, <2>1
  <2>3. /\ ~IsWorking(t)'
        /\ \A u \in CameraThreads : u # t => (IsWorking(u)' <=> IsWorking(u)) /\ cam'[u].event = cam[u].event
    <3>1. cam'[t].at = place /\ \A u \in CameraThreads : u # t => cam'[u] = cam[u]
      BY <1>0, <2>1 DEF ThreadStates
    <3> QED BY <3>1 DEF IsWorking
  <2>4. t \in Writers /\ closing[t] = NoVisit
    BY <2>1 DEF PublicationInv, ClosersAreClosing, Writers
  <2> HIDE DEF now, over
  <2>5. /\ Closed' = Closed \union (IF over THEN {visit} ELSE {})
        /\ over => visit # NoVisit
    <3>1. over => visit # NoVisit
      BY DEF over, Over
    <3>2. \A w \in Writers : closing'[w] = IF w = t /\ over THEN visit ELSE closing[w]
      BY <1>0, <2>1, <2>4
    <3>3. {closing'[w] : w \in Writers} \ {NoVisit} = ({closing[w] : w \in Writers} \ {NoVisit}) \union (IF over THEN {visit} ELSE {})
      <4>1. CASE over
        BY <2>4, <3>1, <3>2, <4>1
      <4>2. CASE ~over
        BY <3>2, <4>2
      <4> QED BY <4>1, <4>2
    <3> QED BY <2>1, <3>1, <3>3 DEF Closed
  <2>6. e \notin InVisits /\ \A u \in CameraThreads : u # t /\ IsWorking(u) => cam[u].event # e /\ cam[u].event \notin InVisits
    BY <1>e, <2>1, <2>2 DEF VisitsAreDisjoint
  <2>7. visit'.of = {e} \/ (~over /\ visit'.of = visit.of \union {e})
    BY <1>0, <2>1 DEF Started, VisitRecords
  <2>8. visit # NoVisit /\ ~over => visit'.of = visit.of \union {e}
    BY <1>0, <2>1 DEF VisitRecords
  <2>9. visit' # NoVisit
    <3>1. e \in visit'.of
      BY <2>7
    <3>2. NoVisit.of = {}
      BY DEF NoVisit
    <3> QED BY <3>1, <3>2
  <2>10. visit = NoVisit => visit.of = {}
    BY DEF NoVisit
  <2>11. InVisits' = InVisits \union {e}
    <3>1. CASE over
      <4>1. visit'.of = {e}
        BY <2>7, <3>1
      <4> QED BY <2>5, <3>1, <4>1 DEF InVisits
    <3>2. CASE ~over
      <4>1. visit'.of = visit.of \union {e}
        BY <2>7, <2>8, <2>10, <3>2
      <4> QED BY <2>5, <3>2, <4>1 DEF InVisits
    <3> QED BY <3>1, <3>2
  <2>12. VisitsAreDisjoint'
    <3>1. \A c \in Closed' : visit'.of \intersect c.of = {}
      BY <2>5, <2>6, <2>7 DEF VisitsAreDisjoint, InVisits
    <3>2. \A c, d \in Closed' : c = d \/ c.of \intersect d.of = {}
      BY <2>5 DEF VisitsAreDisjoint
    <3>3. \A u \in CameraThreads : IsWorking(u)' => cam'[u].event \notin InVisits'
      BY <2>3, <2>6, <2>11
    <3>4. InVisits' \subseteq 1 .. Len(stamp')
      BY <2>1, <2>2, <2>11 DEF VisitsAreDisjoint
    <3> QED BY <3>1, <3>2, <3>3, <3>4 DEF VisitsAreDisjoint
  <2>13. EventsAreTold'
    <3>1. ASSUME NEW i \in 1 .. Len(stamp), NEW u \in CameraThreads, IsWorking(u), cam[u].event = i
          PROVE  i \in InVisits' \/ (IsWorking(u)' /\ cam'[u].event = i)
      BY <2>3, <2>11, <3>1
    <3> QED BY <2>1, <2>11, <3>1 DEF EventsAreTold
  <2>14. ASSUME ~late' PROVE VisitsAreInTime'
    <3>1. VisitsAreInTime /\ (visit # NoVisit => visit.last <= now)
      <4>1. ~late /\ ~(visit # NoVisit /\ now < visit.last)
        BY <2>1, <2>14
      <4> QED BY <1>0, <2>2, <4>1
    <3>2. CASE visit = NoVisit
      <4>1. visit' = Started(e) /\ visit'.start = now /\ visit'.last = now
        BY <2>1, <3>2 DEF Started, now
      <4>2. \A c \in Closed : c.last + VisitTimeout <= now
        BY <2>1, <3>1, <3>2 DEF VisitsAreInTime, now
      <4>3. Closed' = Closed
        BY <2>5, <3>2
      <4> QED BY <2>1, <2>2, <2>9, <3>1, <4>1, <4>2, <4>3 DEF VisitsAreInTime, AreApart
    <3>3. CASE visit # NoVisit /\ over
      <4>1. visit' = Started(e) /\ visit'.start = now /\ visit'.last = now
        BY <2>1, <3>3 DEF Started, now
      <4>2. now - visit.last >= VisitTimeout
        BY <3>3 DEF over, Over
      <4>3. \A c \in Closed : c.last + VisitTimeout <= visit.start /\ c.start <= c.last
        BY <3>1, <3>3 DEF VisitsAreInTime
      <4>4. visit.start <= visit.last
        BY <3>1, <3>3 DEF VisitsAreInTime
      <4>5. \A c \in Closed' : c.last + VisitTimeout <= now /\ c.start <= c.last
        BY <1>0, <2>2, <2>5, <4>2, <4>3, <4>4
      <4>6. \A c, d \in Closed' : c = d \/ AreApart(c, d)
        BY <2>5, <3>1, <4>3 DEF VisitsAreInTime, AreApart
      <4> QED BY <2>1, <2>2, <2>9, <4>1, <4>5, <4>6 DEF VisitsAreInTime, AreApart
    <3>4. CASE visit # NoVisit /\ ~over
      <4>1. visit'.start = visit.start /\ visit'.last = now
        BY <1>0, <2>1, <3>4 DEF VisitRecords
      <4>2. visit.start <= now
        BY <1>0, <2>2, <3>1, <3>4 DEF VisitsAreInTime
      <4>3. Closed' = Closed
        BY <2>5, <3>4
      <4> QED BY <2>1, <2>2, <2>9, <3>1, <3>4, <4>1, <4>2, <4>3 DEF VisitsAreInTime, AreApart
    <3> QED BY <3>2, <3>3, <3>4
  <2> QED BY <2>1, <2>12, <2>13, <2>14
<1>6. ASSUME FlushExpired PROVE VisitInv'
  <2>1. /\ closing[Main] = NoVisit /\ Over(visit, clock) /\ closing' = [closing EXCEPT ![Main] = visit] /\ visit' = NoVisit
        /\ late' = (late \/ Working # {})
        /\ UNCHANGED <<clock, cam, stamp, sessions, unvisited>>
    BY <1>6 DEF FlushExpired
  <2>2. visit # NoVisit /\ clock - visit.last >= VisitTimeout /\ visit'.of = {} /\ Main \in Writers
    BY <2>1, DetectionTypes DEF Over, NoVisit
  <2>3. Closed' = Closed \union {visit}
    <3>1. \A w \in Writers : closing'[w] = IF w = Main THEN visit ELSE closing[w]
      BY <1>0, <2>1
    <3>2. {closing'[w] : w \in Writers} \ {NoVisit} = ({closing[w] : w \in Writers} \ {NoVisit}) \union {visit}
      BY <2>1, <2>2, <3>1
    <3> QED BY <2>1, <2>2, <3>2 DEF Closed
  <2>4. InVisits' = InVisits
    BY <2>2, <2>3 DEF InVisits
  <2>5. \A t \in CameraThreads : (IsWorking(t)' <=> IsWorking(t)) /\ (Working = {} => ~IsWorking(t))
    BY <2>1 DEF IsWorking, Working
  <2>6. VisitsAreDisjoint'
    BY <2>1, <2>2, <2>3, <2>4, <2>5 DEF VisitsAreDisjoint
  <2>7. EventsAreTold'
    BY <2>1, <2>4, <2>5 DEF EventsAreTold
  <2>8. ASSUME ~late' PROVE VisitsAreInTime'
    <3>1. VisitsAreInTime /\ \A t \in CameraThreads : ~IsWorking(t)'
      BY <2>1, <2>5, <2>8
    <3>2. visit.start <= visit.last /\ \A c \in Closed : c.last + VisitTimeout <= visit.start /\ c.start <= c.last
      BY <2>2, <3>1 DEF VisitsAreInTime
    <3>3. \A c \in Closed' : c.last + VisitTimeout <= clock /\ c.start <= c.last
      BY <1>0, <2>2, <2>3, <3>2
    <3>4. \A c, d \in Closed' : c = d \/ AreApart(c, d)
      BY <2>3, <3>1, <3>2 DEF VisitsAreInTime, AreApart
    <3> QED BY <2>1, <3>1, <3>3, <3>4 DEF VisitsAreInTime, AreApart
  <2> QED BY <2>1, <2>6, <2>7, <2>8
<1>7. ASSUME NEW w \in DOMAIN closing, PersistVisit(w) PROVE VisitInv'
  <2>1. /\ w \in Writers /\ closing[w] # NoVisit /\ closing' = [closing EXCEPT ![w] = NoVisit]
        /\ cam' = (IF w = Main THEN cam ELSE [cam EXCEPT ![w].at = "idle"])
        /\ UNCHANGED <<clock, stamp, visit, late>>
        /\ \/ sessions' = sessions \union {closing[w]} /\ UNCHANGED unvisited
           \/ unvisited' = unvisited \union closing[w].of /\ UNCHANGED sessions
    BY <1>0, <1>7 DEF PersistVisit
  <2>2. NoVisit \notin sessions'
    BY <2>1
  <2>3. \A u \in CameraThreads : /\ IsWorking(u)' <=> IsWorking(u)
                                 /\ IsWorking(u) => cam'[u].event = cam[u].event
    <3>1. w # Main => w \in CameraThreads /\ cam[w].at = "closing"
      BY <2>1 DEF Writers, PublicationInv, ClosersAreClosing
    <3>2. \A u \in CameraThreads : cam'[u] = cam[u] \/ (u = w /\ w # Main /\ cam'[u].at = "idle")
      BY <1>0, <2>1 DEF ThreadStates
    <3> QED BY <3>1, <3>2 DEF IsWorking
  <2>4. /\ \A v \in Writers : closing'[v] = IF v = w THEN NoVisit ELSE closing[v]
        /\ Closed \subseteq Closed' \union {closing[w]} /\ closing[w] \in Closed
    <3>1. \A v \in Writers : closing'[v] = IF v = w THEN NoVisit ELSE closing[v]
      BY <1>0, <2>1
    <3> QED BY <2>1, <3>1 DEF Closed
  <2>5. CASE sessions' = sessions \union {closing[w]} /\ UNCHANGED unvisited
    <3>1. Closed' = Closed
      BY <2>1, <2>4, <2>5 DEF Closed
    <3> QED BY <1>0, <2>1, <2>2, <2>3, <2>5, <3>1, VisitsRest
  <2>6. CASE unvisited' = unvisited \union closing[w].of /\ UNCHANGED sessions
    <3>1. Closed' \subseteq Closed
      BY <2>1, <2>4, <2>6 DEF Closed
    <3>2. InVisits' \subseteq InVisits /\ InVisits \subseteq InVisits' \union unvisited'
      BY <2>1, <2>4, <2>6, <3>1 DEF InVisits
    <3>3. VisitsAreDisjoint'
      BY <2>1, <2>3, <3>1, <3>2 DEF VisitsAreDisjoint
    <3>4. EventsAreTold'
      BY <2>1, <2>3, <2>6, <3>2 DEF EventsAreTold
    <3>5. VisitsAreInTime => VisitsAreInTime'
      BY <2>1, <2>3, <3>1 DEF VisitsAreInTime, AreApart
    <3> QED BY <2>1, <2>2, <3>3, <3>4, <3>5
  <2> QED BY <2>1, <2>5, <2>6
<1>8. ASSUME Shutdown PROVE VisitInv'
  <2>1. /\ \A w \in Writers : closing[w] = NoVisit
        /\ sessions' = (IF visit = NoVisit THEN sessions ELSE sessions \union {visit}) /\ visit' = NoVisit
        /\ unvisited' = unvisited \union Working /\ cam' = [t \in CameraThreads |-> Nothing]
        /\ late' = (late \/ visit # NoVisit)
        /\ UNCHANGED <<clock, stamp, closing>>
    BY <1>0, <1>8 DEF Shutdown
  <2>2. NoVisit.of = {} /\ NoVisit \notin sessions'
    BY <2>1 DEF NoVisit
  <2>3. Closed' = Closed \union (IF visit = NoVisit THEN {} ELSE {visit})
    BY <2>1 DEF Closed
  <2>4. InVisits' = InVisits
    BY <2>1, <2>2, <2>3 DEF InVisits
  <2>5. /\ \A t \in CameraThreads : ~IsWorking(t)'
        /\ \A t \in CameraThreads : IsWorking(t) => cam[t].event \in unvisited'
    BY <2>1 DEF IsWorking, Nothing, Working
  <2>6. VisitsAreDisjoint'
    <3>1. \A c \in Closed' : visit'.of \intersect c.of = {}
      BY <2>1, <2>2
    <3>2. \A c, d \in Closed' : c = d \/ c.of \intersect d.of = {}
      BY <2>3 DEF VisitsAreDisjoint
    <3>3. InVisits' \subseteq 1 .. Len(stamp')
      BY <2>1, <2>4 DEF VisitsAreDisjoint
    <3> QED BY <2>5, <3>1, <3>2, <3>3 DEF VisitsAreDisjoint
  <2>7. EventsAreTold'
    BY <2>1, <2>4, <2>5 DEF EventsAreTold
  <2>8. ASSUME ~late' PROVE VisitsAreInTime'
    <3>1. VisitsAreInTime /\ visit = NoVisit /\ Closed' = Closed
      BY <2>1, <2>3, <2>8
    <3> QED BY <2>1, <2>5, <3>1 DEF VisitsAreInTime, AreApart
  <2> QED BY <2>1, <2>2, <2>6, <2>7, <2>8
<1>9. ASSUME DetectionsTick \/ UNCHANGED detectionVars PROVE VisitInv'
  <2>1. UNCHANGED <<stamp, cam, visitVars>> /\ clock' \in {clock, clock + 1}
    BY <1>9 DEF DetectionsTick, detectionVars
  <2>2. Closed' = Closed /\ NoVisit \notin sessions'
    BY <2>1 DEF Closed
  <2>3. clock' \in Times
    BY DEF PublicationInv, DetectionsTyped
  <2>4. clock <= clock' /\ \A u \in CameraThreads : IsWorking(u)' <=> IsWorking(u)
    BY <1>0, <2>1 DEF IsWorking
  <2> QED BY <2>1, <2>2, <2>3, <2>4, VisitsRest
<1>10. ASSUME NEW t \in CameraThreads, Decide(t) PROVE VisitInv'
  BY <1>3, <1>4, <1>10 DEF Decide
<1> QED BY <1>0, <1>2, <1>5, <1>6, <1>7, <1>8, <1>9, <1>10 DEF DetectionsNext

LEMMA DetectionsInvSuffices == ASSUME DetectionsAssumption, PublicationInv, VisitInv PROVE DetectionsHold
<1>1. DetectionsTypeOK
  <2>1. \A t \in CameraThreads : cam[t].at \in ThreadPlaces /\ Len(buffer[t]) <= BufferMax
    BY PublicationTypes
  <2>2. visit.of \subseteq Events /\ DOMAIN closing = CameraThreads \union {Main}
    BY DEF PublicationInv, DetectionsTyped, VisitRecords, Writers
  <2> QED BY <2>1, <2>2 DEF PublicationInv, DetectionsTyped, DetectionsTypeOK, ThreadPlaces, Times
<1>2. EventsArePublished
  <2>1. AllPending \subseteq Working \union InBuffers
    BY DEF AllPending, Pending, IsSending, Working, InBuffers, ElementsOf
  <2>2. Happened \subseteq Working \union InBuffers \union Published \union dropped
    BY <2>1 DEF PublicationInv, EventsAreKnown
  <2>3. Len(channel) <= Cardinality(Published) + doubled
    <3>1. IsFiniteSet(Published) /\ Len(channel) \in Nat /\ doubled \in Nat
      BY PublicationTypes
    <3>2. IsFiniteSet(Published \intersect AllPending)
      BY <3>1, FS_Subset
    <3>3. Cardinality(Published \intersect AllPending) \in Nat /\ Cardinality(Published) \in Nat
      BY <3>1, <3>2, FS_CardinalityType
    <3> QED BY <3>1, <3>3 DEF PublicationInv, RepeatsAreCounted
  <2> QED BY <2>2, <2>3 DEF EventsArePublished, PublicationInv, ChannelIsInOrder
<1>3. EventsAreInOneVisit
  <2> DEFINE all == {visit, NoVisit} \union sessions \union {closing[w] : w \in DOMAIN closing}
  <2>1. DOMAIN closing = Writers /\ NoVisit.of = {}
    BY DEF PublicationInv, DetectionsTyped, NoVisit
  <2>2. all = {visit, NoVisit} \union Closed
    BY <2>1 DEF Closed
  <2> HIDE DEF all
  <2>3. \A v, w \in all : v = w \/ v.of \intersect w.of = {}
    BY <2>1, <2>2 DEF VisitInv, VisitsAreDisjoint
  <2>4. \A e \in Happened : e \in Working \union unvisited \union UNION {v.of : v \in all}
    <3> SUFFICES ASSUME NEW e \in 1 .. Len(stamp) PROVE e \in Working \union unvisited \union UNION {v.of : v \in all}
      BY PublicationTypes
    <3>1. e \in InVisits => e \in UNION {v.of : v \in all}
      BY <2>2 DEF InVisits
    <3>2. \A t \in CameraThreads : IsWorking(t) => cam[t].event \in Working
      BY DEF IsWorking, Working
    <3> QED BY <3>1, <3>2 DEF VisitInv, EventsAreTold
  <2> QED BY <2>3, <2>4 DEF EventsAreInOneVisit, all
<1>4. VisitsAreApart
  <2> SUFFICES ASSUME VisitsAreInTime, NEW v \in (sessions \union {visit}) \ {NoVisit}
               PROVE  /\ v.start <= v.last
                      /\ \A w \in sessions : w # v => w.last + VisitTimeout <= v.start \/ v.last + VisitTimeout <= w.start
    BY DEF VisitsAreApart, VisitInv
  <2>1. sessions \subseteq Closed
    BY DEF Closed, VisitInv
  <2>2. CASE v \in sessions
    BY <2>1, <2>2 DEF VisitsAreInTime, AreApart
  <2>3. CASE v = visit
    BY <2>1, <2>3 DEF VisitsAreInTime
  <2> QED BY <2>2, <2>3
<1> QED BY <1>1, <1>2, <1>3, <1>4 DEF DetectionsHold

\* Whatever two threads, failures of Redis and the database, and the end of the
\* detector do to it, a detection becomes a message and a part of one visit, in
\* order, or is known not to (events.py, publisher.py, visit_tracker.py).
THEOREM DetectionsAreCorrect == DetectionsSpec => []DetectionsHold
<1>1. DetectionsInit => PublicationInv /\ VisitInv
  <2> SUFFICES ASSUME DetectionsInit PROVE PublicationInv /\ VisitInv
    OBVIOUS
  <2> USE DetectionsAssumption DEF DetectionsAssumption
  <2>1. /\ 0 \in Times /\ Nothing \in ThreadStates /\ Nothing.at = "idle"
        /\ NoVisit.of = {} /\ <<>> \in Seq(Events) /\ <<>> \in Seq(Stamps)
        /\ Len(<<>>) = 0 /\ IsRising(<<>>) /\ ElementsOf(<<>>) = {}
    BY DEF Times, Nothing, ThreadStates, ThreadPlaces, NoVisit, IsRising, ElementsOf
  <2>2. /\ \A t \in CameraThreads : cam[t] = Nothing /\ buffer[t] = <<>>
        /\ \A w \in Writers : closing[w] = NoVisit
        /\ stamp = <<>> /\ channel = <<>> /\ visit = NoVisit /\ sessions = {}
        /\ 1 .. Len(stamp) = {}
    BY <2>1 DEF DetectionsInit, Writers
  <2>3. DetectionsTyped
    <3>1. clock \in Times /\ lastEvent \in Times /\ Len(stamp) <= MaxEvents /\ stamp \in Seq(Stamps) /\ channel \in Seq(Events)
      BY <2>1, <2>2 DEF DetectionsInit
    <3>2. cam \in [CameraThreads -> ThreadStates] /\ buffer \in [CameraThreads -> Seq(Events)]
      BY <2>1 DEF DetectionsInit
    <3>3. closing \in [Writers -> VisitRecords] /\ visit \in VisitRecords /\ sessions \in SUBSET VisitRecords
      BY DetectionTypes DEF DetectionsInit, Writers
    <3> QED BY <3>1, <3>2, <3>3 DEF DetectionsInit, DetectionsTyped
  <2>4. \A t \in CameraThreads : Pending(t) = {} /\ ~IsSending(t)
    BY <2>1, <2>2 DEF Pending, IsSending
  <2>5. BuffersAreBounded /\ EventsAreTheirThreads /\ BuffersRise /\ ClosersAreClosing
    <3>1. BuffersAreBounded /\ BuffersRise
      BY <2>1, <2>2, <2>4 DEF BuffersAreBounded, BuffersRise
    <3>2. EventsAreTheirThreads /\ ClosersAreClosing
      BY <2>1, <2>2, <2>4, DetectionTypes DEF EventsAreTheirThreads, ClosersAreClosing
    <3> QED BY <3>1, <3>2
  <2>6. ChannelIsInOrder
    BY <2>2 DEF ChannelIsInOrder
  <2>7. RepeatsAreCounted
    <3>1. Published = {} /\ Published \intersect AllPending = {}
      BY <2>2 DEF Published
    <3> QED BY <2>1, <2>2, <3>1, FS_EmptySet DEF RepeatsAreCounted, DetectionsInit
  <2>8. EventsAreKnown
    BY <2>1, <2>2 DEF EventsAreKnown, Happened
  <2>9. Closed = {} /\ InVisits = {} /\ \A t \in CameraThreads : ~IsWorking(t)
    BY <2>1, <2>2 DEF Closed, InVisits, IsWorking
  <2>10. VisitInv
    BY <2>2, <2>9 DEF VisitInv, VisitsAreDisjoint, EventsAreTold, VisitsAreInTime
  <2> QED BY <2>3, <2>5, <2>6, <2>7, <2>8, <2>10 DEF PublicationInv
<1>2. PublicationInv /\ VisitInv /\ [DetectionsNext]_detectionVars => (PublicationInv /\ VisitInv)'
  BY DetectionsAssumption, PublicationStep, VisitStep
<1>3. PublicationInv /\ VisitInv => DetectionsHold
  BY DetectionsAssumption, DetectionsInvSuffices
<1> QED BY <1>1, <1>2, <1>3, PTL DEF DetectionsSpec
=============================================================================

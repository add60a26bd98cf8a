------------------------------ MODULE Enrollment ------------------------------
(***************************************************************************)
(* Reference photos of faces, between two processes.  The web service      *)
(* (services/web/src/routes/recognizer.py and recognizer_db.py) creates    *)
(* and deletes faces, saves the uploaded photos under a directory per face *)
(* and announces each on openring:enrollment.  The recognizer              *)
(* (services/recognizer/src/enrollment.py and main.py) computes one        *)
(* embedding per photo: at its start for every photo it finds on the disk, *)
(* afterwards for the ones announced.                                      *)
(*                                                                         *)
(* The web service's handlers are coroutines of one event loop: they give  *)
(* way only where they await an upload.  The recognizer handles one photo  *)
(* at a time.  Photos of a directory are numbered; 0 is a temporary file.  *)
(***************************************************************************)
EXTENDS Naturals, FiniteSets, Sequences, SequencesExt

CONSTANTS
    Uploads,           \* requests that carry photos
    MaxFaces,          \* bound: faces created
    MaxPhotos,         \* bound: photos saved for a face
    MaxEnrollFaults    \* bound: crashes, restarts, failures of Redis or of the disk

ASSUME EnrollAssumption == MaxFaces \in Nat /\ MaxPhotos \in Nat

VARIABLES
    knownFaces,     \* the rows of known_faces
    lastFace,       \* the last AUTOINCREMENT id
    photoFiles,     \* face -> the files in its directory
    embeddings,     \* face -> file -> rows of face_embeddings
    upload,         \* each upload request: the face it is for, 0 when idle
    handler,        \* the handler that has the event loop, between two of its effects
    announced,      \* openring:enrollment, as the recognizer's subscription holds it
    recognizer,     \* the recognizer's process
    missed,         \* complete photos no announcement and no sweep has reached
    escaped,        \* faces deleted while an upload for them waited, or not removed from the disk
    enrollFaults

enrollVars == <<knownFaces, lastFace, photoFiles, embeddings, upload, handler, announced,
                recognizer, missed, escaped, enrollFaults>>

Faces == 1 .. MaxFaces
Temporary == 0
Names == Temporary .. MaxPhotos
Photos == [name : Names, oneFace : BOOLEAN]
NoRequest == [at |-> "free", face |-> 0, photo |-> [name |-> 0, oneFace |-> FALSE]]
Down == [at |-> "down", dirs |-> {}, face |-> 0, todo |-> {}, photo |-> NoRequest.photo]

EnrollmentTypeOK ==
    /\ knownFaces \subseteq Faces /\ lastFace \in 0 .. MaxFaces
    /\ photoFiles \in [Faces -> SUBSET Photos]
    /\ embeddings \in [Faces -> [Names -> 0 .. 2]]
    /\ upload \in [Uploads -> 0 .. MaxFaces]
    /\ handler \in [at : {"free", "wrote", "saved", "deleting"}, face : 0 .. MaxFaces, photo : Photos]
    /\ \A i \in 1 .. Len(announced) : announced[i].face \in Faces
    /\ recognizer \in [at : {"down", "sweeping", "listing", "embedding", "lost", "listening", "answering"},
                       dirs : SUBSET Faces, face : 0 .. MaxFaces, todo : SUBSET Photos, photo : Photos]
    /\ missed \subseteq Faces \X Photos /\ escaped \subseteq Faces

EnrollmentInit ==
    /\ knownFaces = {} /\ lastFace = 0
    /\ photoFiles = [f \in Faces |-> {}]
    /\ embeddings = [f \in Faces |-> [n \in Names |-> 0]]
    /\ upload = [u \in Uploads |-> 0]
    /\ handler = NoRequest
    /\ announced = <<>>
    /\ recognizer = Down
    /\ missed = {} /\ escaped = {} /\ enrollFaults = 0

EnrollFault == enrollFaults < MaxEnrollFaults /\ enrollFaults' = enrollFaults + 1

-----------------------------------------------------------------------------
(* The web service. *)

LoopIsFree == handler.at = "free"

\* faces_create: the row is there before the first photo is read.
FacesCreate(u) ==
    /\ LoopIsFree /\ upload[u] = 0 /\ lastFace < MaxFaces
    /\ lastFace' = lastFace + 1
    /\ knownFaces' = knownFaces \cup {lastFace'}
    /\ upload' = [upload EXCEPT ![u] = lastFace']
    /\ UNCHANGED <<photoFiles, embeddings, handler, announced, recognizer, missed, escaped, enrollFaults>>

\* faces_add_photos: the face is looked up before the first photo is read.
FacesAddPhotos(u, f) ==
    /\ LoopIsFree /\ upload[u] = 0 /\ f \in knownFaces
    /\ upload' = [upload EXCEPT ![u] = f]
    /\ UNCHANGED <<knownFaces, lastFace, photoFiles, embeddings, handler, announced, recognizer, missed,
                   escaped, enrollFaults>>

\* The request has no further photo, or all that is left is rejected.
UploadEnds(u) ==
    /\ LoopIsFree /\ upload[u] # 0
    /\ upload' = [upload EXCEPT ![u] = 0]
    /\ UNCHANGED <<knownFaces, lastFace, photoFiles, embeddings, handler, announced, recognizer, missed,
                   escaped, enrollFaults>>

LastPhotoIndex(f) == CHOOSE n \in Names : /\ n = 0 \/ \E p \in photoFiles[f] : p.name = n
                                          /\ \A p \in photoFiles[f] : p.name <= n
NextPhotoIndex(f) == 1 + LastPhotoIndex(f)

\* _save_photo once the upload is read: the directory is made if it is not there, the bytes go to a
\* temporary file ...
SavePhoto(u) ==
    /\ LoopIsFree /\ upload[u] # 0
    /\ \E oneFace \in BOOLEAN :
           LET f == upload[u]
           IN  /\ NextPhotoIndex(f) <= MaxPhotos
               /\ photoFiles' = [photoFiles EXCEPT ![f] = @ \cup {[name |-> Temporary, oneFace |-> oneFace]}]
               /\ handler' = [at |-> "wrote", face |-> f, photo |-> [name |-> NextPhotoIndex(f), oneFace |-> oneFace]]
    /\ UNCHANGED <<knownFaces, lastFace, embeddings, upload, announced, recognizer, missed, escaped, enrollFaults>>

TheTemporary == [handler.photo EXCEPT !.name = Temporary]

\* ... which is then renamed,
RenamePhoto ==
    /\ handler.at = "wrote"
    /\ photoFiles' = [photoFiles EXCEPT ![handler.face] = (@ \ {TheTemporary}) \cup {handler.photo}]
    /\ handler' = [handler EXCEPT !.at = "saved"]
    /\ UNCHANGED <<knownFaces, lastFace, embeddings, upload, announced, recognizer, missed, escaped, enrollFaults>>

\* or removed when the disk refuses it.
PhotoRefused ==
    /\ handler.at = "wrote" /\ EnrollFault
    /\ photoFiles' = [photoFiles EXCEPT ![handler.face] = @ \ {TheTemporary}]
    /\ handler' = NoRequest
    /\ UNCHANGED <<knownFaces, lastFace, embeddings, upload, announced, recognizer, missed, escaped>>

Subscribed == recognizer.at \in {"listening", "answering"}

\* _publish_enrollment: Redis keeps nothing for a recognizer that is not subscribed.
PublishEnrollment ==
    /\ handler.at = "saved"
    /\ handler' = NoRequest
    /\ \/ /\ Subscribed
          /\ announced' = Append(announced, [face |-> handler.face, photo |-> handler.photo])
          /\ UNCHANGED <<missed, enrollFaults>>
       \/ /\ IF Subscribed THEN EnrollFault ELSE UNCHANGED enrollFaults
          /\ missed' = missed \cup {<<handler.face, handler.photo>>}
          /\ UNCHANGED announced
    /\ UNCHANGED <<knownFaces, lastFace, photoFiles, embeddings, upload, recognizer, escaped>>

\* faces_delete: the row and, by ON DELETE CASCADE, its embeddings, ...
DeleteFace(f) ==
    /\ LoopIsFree /\ f \in knownFaces
    /\ knownFaces' = knownFaces \ {f}
    /\ embeddings' = [embeddings EXCEPT ![f] = [n \in Names |-> 0]]
    /\ handler' = [NoRequest EXCEPT !.at = "deleting", !.face = f]
    /\ escaped' = IF \E u \in Uploads : upload[u] = f THEN escaped \cup {f} ELSE escaped
    /\ UNCHANGED <<lastFace, photoFiles, upload, announced, recognizer, missed, enrollFaults>>

\* ... then the directory, whose removal may fail half-way.
RemoveDirectory ==
    /\ handler.at = "deleting"
    /\ handler' = NoRequest
    /\ \/ /\ photoFiles' = [photoFiles EXCEPT ![handler.face] = {}]
          /\ UNCHANGED <<escaped, enrollFaults>>
       \/ /\ EnrollFault
          /\ \E rest \in SUBSET photoFiles[handler.face] :
                 photoFiles' = [photoFiles EXCEPT ![handler.face] = rest]
          /\ escaped' = escaped \cup {handler.face}
    /\ UNCHANGED <<knownFaces, lastFace, embeddings, upload, announced, recognizer, missed>>

\* The web service dies and comes back: its requests are gone, its files stay.
WebCrash ==
    /\ EnrollFault
    /\ handler # NoRequest \/ \E u \in Uploads : upload[u] # 0
    /\ upload' = [u \in Uploads |-> 0]
    /\ handler' = NoRequest
    /\ escaped' = IF handler.at = "deleting" THEN escaped \cup {handler.face} ELSE escaped
    /\ missed' = IF handler.at = "saved" THEN missed \cup {<<handler.face, handler.photo>>} ELSE missed
    /\ UNCHANGED <<knownFaces, lastFace, photoFiles, embeddings, announced, recognizer>>

-----------------------------------------------------------------------------
(* The recognizer. *)

\* enrollment.sweep, before the subscription: the directories that are there now.
StartSweep ==
    /\ recognizer.at = "down"
    /\ recognizer' = [Down EXCEPT !.at = "sweeping", !.dirs = {f \in Faces : photoFiles[f] # {}}]
    /\ missed' = {}
    /\ UNCHANGED <<knownFaces, lastFace, photoFiles, embeddings, upload, handler, announced, escaped, enrollFaults>>

\* The photos of one of them.
ListDirectory ==
    /\ recognizer.at = "sweeping"
    /\ \E f \in recognizer.dirs :
           recognizer' = [recognizer EXCEPT !.at = "listing", !.dirs = @ \ {f}, !.face = f, !.todo = photoFiles[f]]
    /\ UNCHANGED <<knownFaces, lastFace, photoFiles, embeddings, upload, handler, announced, missed, escaped,
                   enrollFaults>>

\* A slip of the next: the row is looked up by the face alone.
AlreadyEmbeddedByFace(f, p) == \E n \in Names : embeddings[f][n] > 0

\* _photo_already_embedded: there is a row for this face and file name.
AlreadyEmbedded(f, p) == embeddings[f][p.name] > 0

NextOfSweep ==
    /\ recognizer.at = "listing"
    /\ IF recognizer.todo = {}
       THEN recognizer' = [recognizer EXCEPT !.at = "sweeping", !.face = 0]
       ELSE \E p \in recognizer.todo :
                recognizer' = [recognizer EXCEPT !.todo = @ \ {p}, !.photo = p,
                                   !.at = IF AlreadyEmbedded(recognizer.face, p) THEN "listing" ELSE "embedding"]
    /\ UNCHANGED <<knownFaces, lastFace, photoFiles, embeddings, upload, handler, announced, missed, escaped,
                   enrollFaults>>

Replaced(n) == IF n < 2 THEN n + 1 ELSE 2

\* embed_image and insert_embedding: a photo that is gone or does not show one face gives no
\* embedding, and the foreign key refuses the row of a face that is gone.
Embed(f, p) ==
    embeddings' = IF p.oneFace /\ p \in photoFiles[f] /\ f \in knownFaces
                  THEN [embeddings EXCEPT ![f][p.name] = Replaced(@)]
                  ELSE embeddings

EmbedSwept ==
    /\ recognizer.at = "embedding"
    /\ Embed(recognizer.face, recognizer.photo)
    /\ recognizer' = [recognizer EXCEPT !.at = "listing"]
    /\ UNCHANGED <<knownFaces, lastFace, photoFiles, upload, handler, announced, missed, escaped, enrollFaults>>

\* subscribe_loop, once the sweep is over and again after a connection was lost: whatever became
\* complete after its directory was listed is known to nobody.
Unseen == {fp \in Faces \X Photos : fp[2] \in photoFiles[fp[1]] /\ fp[2].name # Temporary
                                    /\ ~AlreadyEmbedded(fp[1], fp[2])
                                    /\ ~(handler.at = "saved" /\ fp = <<handler.face, handler.photo>>)}

Subscribe ==
    /\ \/ recognizer.at = "sweeping" /\ recognizer.dirs = {}
       \/ recognizer.at = "lost"
    /\ recognizer' = [Down EXCEPT !.at = "listening"]
    /\ UNCHANGED <<knownFaces, lastFace, photoFiles, embeddings, upload, handler, announced, missed, escaped,
                   enrollFaults>>

\* An exception ends the sweep, and the service goes on without it.
SweepFails ==
    /\ recognizer.at \in {"sweeping", "listing"} /\ EnrollFault
    /\ recognizer' = [Down EXCEPT !.at = "listening"]
    /\ missed' = missed \cup Unseen
    /\ UNCHANGED <<knownFaces, lastFace, photoFiles, embeddings, upload, handler, announced, escaped>>

\* _handle_enrollment and embed_one: a photo that is not there or has its row is skipped.
HandleEnrollment ==
    /\ recognizer.at = "listening" /\ announced # <<>>
    /\ LET m == Head(announced)
       IN  recognizer' = IF m.photo \in photoFiles[m.face] /\ ~AlreadyEmbedded(m.face, m.photo)
                         THEN [recognizer EXCEPT !.at = "answering", !.face = m.face, !.photo = m.photo]
                         ELSE recognizer
    /\ announced' = Tail(announced)
    /\ UNCHANGED <<knownFaces, lastFace, photoFiles, embeddings, upload, handler, missed, escaped, enrollFaults>>

EmbedOne ==
    /\ recognizer.at = "answering"
    /\ Embed(recognizer.face, recognizer.photo)
    /\ recognizer' = [Down EXCEPT !.at = "listening"]
    /\ UNCHANGED <<knownFaces, lastFace, photoFiles, upload, handler, announced, missed, escaped, enrollFaults>>

InHand == IF recognizer.at = "answering" THEN {<<recognizer.face, recognizer.photo>>} ELSE {}
Delivered == {<<m.face, m.photo>> : m \in ToSet(announced)}

\* The connection to Redis, or the process, is lost with the announcements it held.
ConnectionLost ==
    /\ recognizer.at = "listening" /\ EnrollFault
    /\ recognizer' = [Down EXCEPT !.at = "lost"]
    /\ missed' = missed \cup Delivered
    /\ announced' = <<>>
    /\ UNCHANGED <<knownFaces, lastFace, photoFiles, embeddings, upload, handler, escaped>>

RecognizerStops ==
    /\ recognizer.at # "down" /\ EnrollFault
    /\ recognizer' = Down
    /\ missed' = missed \cup Delivered \cup InHand
    /\ announced' = <<>>
    /\ UNCHANGED <<knownFaces, lastFace, photoFiles, embeddings, upload, handler, escaped>>

EnrollmentNext ==
    \/ \E u \in Uploads : FacesCreate(u) \/ UploadEnds(u) \/ SavePhoto(u) \/ \E f \in Faces : FacesAddPhotos(u, f)
    \/ RenamePhoto \/ PhotoRefused \/ PublishEnrollment
    \/ \E f \in Faces : DeleteFace(f)
    \/ RemoveDirectory \/ WebCrash
    \/ StartSweep \/ ListDirectory \/ NextOfSweep \/ EmbedSwept \/ Subscribe \/ SweepFails
    \/ HandleEnrollment \/ EmbedOne \/ ConnectionLost \/ RecognizerStops

EnrollmentSpec == EnrollmentInit /\ [][EnrollmentNext]_enrollVars

-----------------------------------------------------------------------------
\* A photo has one embedding, whichever of the sweep, the announcement and a restart in between
\* came to it, and in whatever order: a face's best distance is not weighed twice.
PhotosCountOnce == \A f \in Faces : \A n \in Names : embeddings[f][n] < 2

\* While the recognizer listens and has nothing left to do, every photo of one face that is on the
\* disk for an enrolled face has its embedding, unless its announcement was lost or the photo
\* became complete between the sweep and the subscription.
PhotosAreEmbedded ==
    (recognizer.at = "listening" /\ announced = <<>>) =>
        \A f \in knownFaces : \A p \in photoFiles[f] :
            \/ ~p.oneFace \/ p.name = Temporary
            \/ embeddings[f][p.name] > 0
            \/ <<f, p>> \in missed
            \/ handler.at = "saved" /\ handler.face = f /\ handler.photo = p

\* Once a face's deletion is over nothing of it is left on the disk, unless an upload for it was
\* waiting meanwhile or the disk refused.
DeletedIsErased ==
    \A f \in 1 .. lastFace :
        (f \notin knownFaces /\ f \notin escaped /\ ~(handler.at = "deleting" /\ handler.face = f)) =>
            photoFiles[f] = {} /\ \A n \in Names : embeddings[f][n] = 0

\* Uploads, deletions, lost announcements and restarts leave what the recognizer
\* knows of a face in agreement with what was enrolled.
EnrollmentHolds == EnrollmentTypeOK /\ PhotosCountOnce /\ PhotosAreEmbedded /\ DeletedIsErased

\* A photo that is not complete is never embedded.
\* The code does not keep this; TLC refutes it (README, section 3).
OnlyWholePhotosAreEmbedded == \A f \in Faces : embeddings[f][Temporary] = 0

=============================================================================

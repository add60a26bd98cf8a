------------------------------ MODULE MCEvidence ------------------------------
(***************************************************************************)
(* What becomes of an event: how it is told and counted, filmed,           *)
(* recognized and kept, each part explored on its own: `part` says which,  *)
(* and the others stay asleep.                                             *)
(*                                                                         *)
(*   detections  two camera threads that share a cooldown and a visit      *)
(*   retention   two of a detection, a press and a system event, of any    *)
(*               age                                                       *)
(*   clips       two deliveries, of one event or of two of a camera, and   *)
(*               two workers, while the ring turns                         *)
(*   recognizer  two deliveries of an event and one of another, one slot   *)
(*               in the queue, one face that comes and goes                *)
(*   enrollment  a face, two uploads of its photos at a time               *)
(***************************************************************************)
EXTENDS Detections, Retention, Clipper, Recognizer, Enrollment, TLC

VARIABLE part

MCEventOf == "j1" :> "e1" @@ "j2" :> "e1" @@ "j3" :> "e2"

evidenceVars == <<part, detectionVars, retentionVars, clipperVars, recogVars, enrollVars>>

EvidenceInit ==
    /\ part \in {"detections", "retention", "clips", "recognizer", "enrollment"}
    /\ DetectionsInit /\ RetentionInit /\ ClipperInit /\ RecognizerInit /\ EnrollmentInit
    /\ part # "recognizer" => recogOn /\ enrolled = [p \in People |-> "absent"]

DetectionsPart == UNCHANGED <<retentionVars, clipperVars, recogVars, enrollVars>> /\ DetectionsNext
RetentionPart == UNCHANGED <<detectionVars, clipperVars, recogVars, enrollVars>> /\ RetentionNext
ClipsPart == UNCHANGED <<detectionVars, retentionVars, recogVars, enrollVars>> /\ ClipperNext
RecognizerPart == UNCHANGED <<detectionVars, retentionVars, clipperVars, enrollVars>> /\ RecognizerNext
EnrollmentPart == UNCHANGED <<detectionVars, retentionVars, clipperVars, recogVars>> /\ EnrollmentNext

EvidenceNext ==
    /\ UNCHANGED part
    /\ \/ part = "detections" /\ DetectionsPart
       \/ part = "retention" /\ RetentionPart
       \/ part = "clips" /\ ClipsPart
       \/ part = "recognizer" /\ RecognizerPart
       \/ part = "enrollment" /\ EnrollmentPart

EvidenceSpec == EvidenceInit /\ [][EvidenceNext]_evidenceVars

\* Two of the three events are recorded; one thing fails on the way of a detection,
\* and a third detection comes only after a failed publication.
AtATime ==
    /\ Cardinality(Rows \union old) <= 2
    /\ publishErrors + rowErrors <= 1
    /\ Len(stamp) = 3 => publishErrors > 0

\* The clipper's workers are alike.
WorkersAlike == Permutations(Workers)

\* What tells states apart: the variables of the part that runs.
PartState == CASE part = "detections" -> <<part, detectionVars>>
             [] part = "retention" -> <<part, retentionVars>>
             [] part = "clips" -> <<part, clipperVars>>
             [] part = "recognizer" -> <<part, recogVars>>
             [] part = "enrollment" -> <<part, enrollVars>>
=============================================================================

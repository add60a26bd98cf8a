--------------------------- MODULE MCConfiguration ---------------------------
(***************************************************************************)
(* The configuration, who writes it and who acts on it, and the pages that *)
(* show it; each part explored on its own: `part` says which, and the      *)
(* others stay asleep.                                                     *)
(*                                                                         *)
(*   armfile     the flags that the scheduler and two pages of the web     *)
(*               service write, and the detector follows                   *)
(*   store       two backups at most, and two writes of others             *)
(*   deterrent   two pages with the same two devices, names and a group    *)
(*   form        one page of the editor and two names of cameras           *)
(*   secrets     a key that is shared by two fields                        *)
(*   digest      three days of two instants, two channels                  *)
(*   report      three readings and one class of objects                   *)
(*   classes     two pages that ask for the classes of a file              *)
(*   evaluation  two pages, two labelled snapshots, three models           *)
(*   routing     one file without rules, one with all of them, and one in   *)
(*               which the doorbell is no camera and a rule names no       *)
(*               channel                                                   *)
(***************************************************************************)
EXTENDS ArmFile, ConfigStore, DeterrentPage, ConfigForm, SecretBox, Digest, DigestReport,
        ModelClasses, Evaluation, AlertRouting, TLC

VARIABLE part

MCShapes ==
    {[url |-> "rtsp", extra |-> FALSE, notify |-> {}, deter |-> {}],
     [url |-> "rtsp", extra |-> TRUE, notify |-> {"c"}, deter |-> {}],
     [url |-> "other", extra |-> FALSE, notify |-> {}, deter |-> {}],
     [url |-> "rtsp", extra |-> FALSE, notify |-> {"c"}, deter |-> {"g"}]}
MCSecrets == <<"api_key", "webhook_url">>
MCReadings == {<<0, 0>>, <<1, -1>>, <<2, 1>>}
MCGroundTruth == <<"cat", "dog">>
Box(class, hit) == [class |-> class, hit |-> hit]
MCPredictions == {<<>>, <<Box("cat", TRUE), Box("cat", FALSE)>>, <<Box("dog", TRUE)>>}

ClassRule(class, names) == [class |-> class, names |-> names]
FaceRule(label, names) == [label |-> label, names |-> names]

MCRoutingConfigs ==
    {[rules |-> <<>>, ownCamera |-> TRUE, deterrents |-> <<>>, faceRules |-> <<>>, faceOn |-> FALSE,
      channels |-> {"phone", "mail"}],
     [rules |-> <<ClassRule("person", {"phone"}), ClassRule("*", {"mail"})>>, ownCamera |-> TRUE,
      deterrents |-> <<ClassRule("dog", {"siren"}), ClassRule("*", {})>>,
      faceRules |-> <<FaceRule("Sarah", {}), FaceRule("*", {"mail"}),
                      FaceRule("unknown", {"phone", "mail"})>>, faceOn |-> TRUE,
      channels |-> {"phone", "mail"}],
     [rules |-> <<ClassRule("dog", {}), ClassRule("person", {"phone", "mail"})>>, ownCamera |-> FALSE,
      deterrents |-> <<ClassRule("person", {"siren"})>>,
      faceRules |-> <<FaceRule("unknown", {"phone"}), FaceRule("Sarah", {"phone"})>>, faceOn |-> TRUE,
      channels |-> {"phone"}]}

MCRecognitions ==
    {[status |-> "matched", label |-> "Sarah"], [status |-> "matched", label |-> "Tom"],
     [status |-> "unknown", label |-> ""], [status |-> "no_face", label |-> ""]}

configurationVars == <<part, fileVars, configVars, deterrentVars, formVars, boxVars, digestVars,
                       reportVars, classVars, evalVars, routingVars>>

ConfigurationInit ==
    /\ part \in {"armfile", "store", "deterrent", "form", "secrets", "digest", "report", "classes",
                 "evaluation", "routing"}
    /\ ArmFileInit /\ ConfigInit /\ DeterrentInit /\ FormInit /\ BoxInit
    /\ DigestInit /\ ReportInit /\ ClassesInit /\ EvaluationInit /\ RoutingInit
    /\ part # "armfile" => file = [s \in Settings |-> FALSE]
    /\ part # "store" => config.secrets = "plain"
    /\ part # "deterrent" => tuya = {}
    /\ part # "secrets" => \A s \in Fields : entered[s] = 0
    /\ part # "digest" =>
          report.frequency = "daily" /\ report.time = 0 /\ zone = 0
    /\ part # "report" => reading = <<0, 0>>
    /\ part # "classes" => poolContent = 0
    /\ part # "routing" => onFile.rules = <<>>

ArmFilePart ==
    /\ UNCHANGED <<configVars, deterrentVars, formVars, boxVars, digestVars,
                  reportVars, classVars, evalVars, routingVars>>
    /\ ArmFileNext
StorePart ==
    /\ UNCHANGED <<fileVars, deterrentVars, formVars, boxVars, digestVars,
                  reportVars, classVars, evalVars, routingVars>>
    /\ ConfigNext
DeterrentPart ==
    /\ UNCHANGED <<fileVars, configVars, formVars, boxVars, digestVars, reportVars,
                  classVars, evalVars, routingVars>>
    /\ DeterrentNext
FormPart ==
    /\ UNCHANGED <<fileVars, configVars, deterrentVars, boxVars, digestVars,
                  reportVars, classVars, evalVars, routingVars>>
    /\ FormNext
SecretsPart ==
    /\ UNCHANGED <<fileVars, configVars, deterrentVars, formVars, digestVars,
                  reportVars, classVars, evalVars, routingVars>>
    /\ BoxNext
DigestPart ==
    /\ UNCHANGED <<fileVars, configVars, deterrentVars, formVars, boxVars,
                  reportVars, classVars, evalVars, routingVars>>
    /\ DigestNext
ReportPart ==
    /\ UNCHANGED <<fileVars, configVars, deterrentVars, formVars, boxVars,
                  digestVars, classVars, evalVars, routingVars>>
    /\ ReportNext
ClassesPart ==
    /\ UNCHANGED <<fileVars, configVars, deterrentVars, formVars, boxVars,
                  digestVars, reportVars, evalVars, routingVars>>
    /\ ClassesNext
EvaluationPart ==
    /\ UNCHANGED <<fileVars, configVars, deterrentVars, formVars, boxVars,
                  digestVars, reportVars, classVars, routingVars>>
    /\ EvaluationNext
RoutingPart ==
    /\ UNCHANGED <<fileVars, configVars, deterrentVars, formVars, boxVars,
                  digestVars, reportVars, classVars, evalVars>>
    /\ RoutingNext

ConfigurationNext ==
    /\ UNCHANGED part
    /\ \/ part = "armfile" /\ ArmFilePart
       \/ part = "store" /\ StorePart
       \/ part = "deterrent" /\ DeterrentPart
       \/ part = "form" /\ FormPart
       \/ part = "secrets" /\ SecretsPart
       \/ part = "digest" /\ DigestPart
       \/ part = "report" /\ ReportPart
       \/ part = "classes" /\ ClassesPart
       \/ part = "evaluation" /\ EvaluationPart
       \/ part = "routing" /\ RoutingPart

ConfigurationSpec == ConfigurationInit /\ [][ConfigurationNext]_configurationVars

\* What tells states apart: the variables of the part that runs.
PartState ==
    CASE part = "armfile" -> <<part, fileVars>>
      [] part = "store" -> <<part, configVars>>
      [] part = "deterrent" -> <<part, deterrentVars>>
      [] part = "form" -> <<part, formVars>>
      [] part = "secrets" -> <<part, boxVars>>
      [] part = "digest" -> <<part, digestVars>>
      [] part = "report" -> <<part, reportVars>>
      [] part = "classes" -> <<part, classVars>>
      [] part = "evaluation" -> <<part, evalVars>>
      [] part = "routing" -> <<part, routingVars>>

-----------------------------------------------------------------------------
\* A digest goes out when it is due and says what the rows say.
DigestsHold == DigestHolds /\ ReportHolds

\* What the notifier sends: an alert goes where the files say, the digest of a day goes
\* out once and says what the rows say.
MessagesHold == RoutingHolds /\ DigestsHold

\* What the pages say of a model, its classes and its score, is true of its file.
ModelsHold == ClassesHold /\ EvaluationHolds
=============================================================================

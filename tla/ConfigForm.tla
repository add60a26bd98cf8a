----------------------------- MODULE ConfigForm -----------------------------
(***************************************************************************)
(* The configuration editor of the web service: the structured form and    *)
(* the raw-YAML tab (web/src/routes/config.py), what they keep of the file *)
(* they write over, the references their answer warns about, and what the  *)
(* read-only role sees of a secret (config_redact.py).  A page is filled   *)
(* when it is opened and posted whole, however stale it is by then.        *)
(***************************************************************************)
EXTENDS Naturals, FiniteSets

CONSTANTS
    Forms,       \* browser tabs with the editor
    CameraNames,
    ChannelNames,
    GroupNames,
    CameraShapes,  \* what people enter for a camera: some of Cameras
    MaxSaves       \* bound: how often the file is saved

VARIABLES
    yaml,     \* the configuration file
    form,     \* form[p]: what tab p holds, or NoForm
    warned,   \* the last save was the editor's, and the warnings of its answer
    saves     \* how many of MaxSaves have happened

formVars == <<yaml, form, warned, saves>>

----------------------------------------------------------------------------
(* The parts of the file the editor tells apart.                           *)

\* url: an address the validator accepts, one it rejects; extra: a field of
\* the camera the form does not know.
Cameras == [url : {"rtsp", "other"}, extra : BOOLEAN,
            notify : SUBSET ChannelNames, deter : SUBSET GroupNames]
NoCamera == [url |-> "none"]

\* summary: the channels of the digest; keys: the Tuya credentials.
Yaml == [cameras : [CameraNames -> Cameras \union {NoCamera}],
         channels : SUBSET ChannelNames, groups : SUBSET GroupNames,
         summary : SUBSET ChannelNames, keys : BOOLEAN, enabled : BOOLEAN]

ASSUME FormAssumption ==
    CameraShapes \subseteq Cameras \union {NoCamera} /\ MaxSaves \in Nat

NoForm == [role |-> "closed"]

FormInit ==
    /\ yaml = [cameras |-> [n \in CameraNames |-> NoCamera], channels |-> ChannelNames,
               groups |-> {}, summary |-> {}, keys |-> FALSE, enabled |-> FALSE]
    /\ form = [p \in Forms |-> NoForm]
    /\ warned = [editor |-> FALSE, orphans |-> {}] /\ saves = 0

----------------------------------------------------------------------------
(* Opening the editor.                                                     *)

Defined(cameras) == {n \in CameraNames : cameras[n] # NoCamera}

\* CameraConfig.model_validate: an address that is not rtsp:// is refused.
Valid(camera) == camera = NoCamera \/ camera.url = "rtsp"

\* _parse_cfg skips a camera that fails validation.
ParsedCameras(cfg) == [n \in CameraNames |-> IF Valid(cfg.cameras[n]) THEN cfg.cameras[n]
                                             ELSE NoCamera]

\* What a page shows of a secret that is set or not.
Plain(set) == IF set THEN "secret" ELSE "empty"

\* A mutant: only the typed sections are masked, not the list of channels.
MaskedTyped(view) ==
    [view EXCEPT !.urls = [n \in CameraNames |-> IF @[n] = "secret" THEN "masked" ELSE @[n]],
                 !.keys = IF @ = "secret" THEN "masked" ELSE @]

\* _redact_parsed_cfg on the typed sections, redact_config on the channels:
\* a secret that is set is replaced, one that is not stays empty.
Masked(view) ==
    [urls |-> [n \in CameraNames |-> IF view.urls[n] = "secret" THEN "masked" ELSE view.urls[n]],
     keys |-> IF view.keys = "secret" THEN "masked" ELSE view.keys,
     channels |-> [c \in ChannelNames |->
                      IF view.channels[c] = "secret" THEN "masked" ELSE view.channels[c]]]

View(cfg) ==
    [urls |-> [n \in CameraNames |-> Plain(ParsedCameras(cfg)[n] # NoCamera)],
     keys |-> Plain(cfg.keys),
     channels |-> [c \in ChannelNames |-> Plain(c \in cfg.channels)]]

\* config_page, for an admin or for the read-only role.
ConfigPage(p, role) ==
    /\ form[p] = NoForm
    /\ form' = [form EXCEPT ![p] =
          [role |-> role, cameras |-> ParsedCameras(yaml), channels |-> yaml.channels,
           summary |-> yaml.summary, enabled |-> yaml.enabled,
           view |-> IF role = "admin" THEN View(yaml) ELSE Masked(View(yaml))]]
    /\ UNCHANGED <<yaml, warned, saves>>

Edited(p) == form[p].role = "admin" /\ UNCHANGED <<yaml, warned, saves>>

\* The admin gives the camera another name, on the page.
RenameCamera(p, old, new) ==
    /\ Edited(p)
    /\ form[p].cameras[old] # NoCamera /\ form[p].cameras[new] = NoCamera
    /\ form' = [form EXCEPT ![p].cameras =
                   [@ EXCEPT ![old] = NoCamera, ![new] = form[p].cameras[old]]]

\* A new camera or other rules for one.
SetCamera(p, n, camera) ==
    /\ Edited(p)
    /\ ~camera.extra /\ form[p].cameras[n] # camera
    /\ form' = [form EXCEPT ![p].cameras[n] = camera]

SetChannels(p, channels, summary) ==
    /\ Edited(p)
    /\ <<channels, summary>> # <<form[p].channels, form[p].summary>>
    /\ form' = [form EXCEPT ![p].channels = channels, ![p].summary = summary]

----------------------------------------------------------------------------
(* Saving.                                                                 *)

\* A mutant: the digest's channels are not looked at.
OrphansOfCameras(cfg) ==
    LET cams == Defined(cfg.cameras) IN
    UNION ({{<<n, c>> : c \in cfg.cameras[n].notify \ cfg.channels} : n \in cams}
           \union {{<<n, g>> : g \in cfg.cameras[n].deter \ cfg.groups} : n \in cams})

\* _find_orphan_references: rules and the digest name channels and groups
\* that must be defined.
Orphans(cfg) ==
    LET cams == Defined(cfg.cameras) IN
    {<<"summary", c>> : c \in cfg.summary \ cfg.channels}
    \union UNION ({{<<n, c>> : c \in cfg.cameras[n].notify \ cfg.channels} : n \in cams}
                  \union {{<<n, g>> : g \in cfg.cameras[n].deter \ cfg.groups} : n \in cams})

\* A mutant: the form's camera takes the place of the one in the file.
MergedReplaces(n, camera) == [camera EXCEPT !.extra = FALSE]

\* The form's fields over the entry of the same name.
Merged(n, camera) ==
    [camera EXCEPT !.extra = yaml.cameras[n] # NoCamera /\ yaml.cameras[n].extra]

WriteFile(cfg, answer) ==
    /\ saves < MaxSaves
    /\ yaml' = cfg /\ warned' = answer /\ saves' = saves + 1

Answer(cfg) == [editor |-> TRUE, orphans |-> Orphans(cfg)]

\* save_structured_config: the sections of the form replace those of the
\* file, which is read again; of the deterrent only the switch is taken.
StructuredSave(p) ==
    LET sent == form[p]
        merged == [yaml EXCEPT
            !.cameras = [n \in CameraNames |-> IF sent.cameras[n] = NoCamera THEN NoCamera
                                               ELSE Merged(n, sent.cameras[n])],
            !.channels = sent.channels, !.summary = sent.summary, !.enabled = sent.enabled]
    IN /\ form[p].role = "admin"
       /\ \A n \in CameraNames : Valid(sent.cameras[n])
       /\ WriteFile(merged, Answer(merged))
       /\ form' = [form EXCEPT ![p] = NoForm]

\* The payload does not validate: 422, nothing is written.
SaveRefused(p) ==
    /\ form[p].role = "admin"
    /\ \E n \in CameraNames : ~Valid(form[p].cameras[n])
    /\ form' = [form EXCEPT ![p] = NoForm]
    /\ UNCHANGED <<yaml, warned, saves>>

ClosePage(p) ==
    /\ form[p] # NoForm
    /\ form' = [form EXCEPT ![p] = NoForm]
    /\ UNCHANGED <<yaml, warned, saves>>

\* The raw-YAML tab: any mapping is written as it is, here with one camera
\* changed; nothing is validated.
RawSave(n, camera) ==
    LET cfg == [yaml EXCEPT !.cameras[n] = camera] IN
    /\ cfg # yaml
    /\ WriteFile(cfg, Answer(cfg))
    /\ UNCHANGED form

\* The deterrent page writes the credentials and the groups.
DeterrentSave(groups) ==
    /\ ~yaml.keys \/ groups # yaml.groups
    /\ WriteFile([yaml EXCEPT !.keys = TRUE, !.groups = groups],
                 [editor |-> FALSE, orphans |-> {}])
    /\ UNCHANGED form

FormNext ==
    \/ \E p \in Forms, role \in {"admin", "viewer"} : ConfigPage(p, role)
    \/ \E p \in Forms, old, new \in CameraNames : RenameCamera(p, old, new)
    \/ \E p \in Forms, n \in CameraNames, camera \in CameraShapes : SetCamera(p, n, camera)
    \/ \E p \in Forms, channels, summary \in SUBSET ChannelNames :
          SetChannels(p, channels, summary)
    \/ \E p \in Forms : StructuredSave(p) \/ SaveRefused(p) \/ ClosePage(p)
    \/ \E n \in CameraNames, camera \in CameraShapes : RawSave(n, camera)
    \/ \E groups \in SUBSET GroupNames : DeterrentSave(groups)

FormSpec == FormInit /\ [][FormNext]_formVars

----------------------------------------------------------------------------

FormTypeOK ==
    /\ yaml \in Yaml /\ saves \in 0..MaxSaves
    /\ \A p \in Forms : form[p].role \in {"closed", "admin", "viewer"}

\* The read-only role sees which secrets are set and none of them, in the
\* typed sections and in the list of channels alike.
ViewersSeeNoSecret ==
    \A p \in Forms : form[p].role = "viewer" =>
        LET view == form[p].view IN
        /\ view.keys # "secret"
        /\ \A n \in CameraNames :
              view.urls[n] = IF form[p].cameras[n] = NoCamera THEN "empty" ELSE "masked"
        /\ \A c \in ChannelNames :
              view.channels[c] = IF c \in form[p].channels THEN "masked" ELSE "empty"

\* An answer without a warning means that every rule of a camera and the
\* digest reach a channel or a group that is there.
SilentAnswerMeansResolved ==
    warned.editor /\ warned.orphans = {} =>
        /\ yaml.summary \subseteq yaml.channels
        /\ \A n \in CameraNames : yaml.cameras[n] # NoCamera =>
              /\ yaml.cameras[n].notify \subseteq yaml.channels
              /\ yaml.cameras[n].deter \subseteq yaml.groups

\* What the form shows and what it answers are true of the file.
FormHolds == FormTypeOK /\ ViewersSeeNoSecret /\ SilentAnswerMeansResolved

\* Saving the form touches nothing it does not show: the fields of a camera
\* that it does not know stay with its name, and the credentials and groups
\* another page saved while the form was open stay as they are.
FormKeepsTheRest ==
    [][\A p \in Forms : StructuredSave(p) =>
          /\ yaml'.keys = yaml.keys /\ yaml'.groups = yaml.groups
          /\ \A n \in Defined(yaml.cameras) \cap Defined(yaml'.cameras) :
                yaml'.cameras[n].extra = yaml.cameras[n].extra]_formVars

\* Saving the form takes no camera away that the page did not show: what the
\* parser skipped when the page was filled is gone afterwards.
\* The code does not keep this; TLC refutes it (README, section 3).
HiddenCamerasStay ==
    [][\A p \in Forms : StructuredSave(p) =>
          \A n \in Defined(yaml.cameras) :
             Valid(yaml.cameras[n]) \/ n \in Defined(yaml'.cameras)]_formVars
=============================================================================

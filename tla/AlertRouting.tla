----------------------------- MODULE AlertRouting -----------------------------
(***************************************************************************)
(* Whom an alert reaches.  The camera's thread (detector/src/main.py) or,  *)
(* for a press, the web service (routes/doorbell.py) puts the channels of  *)
(* the first matching notification rule on the event; the notifier         *)
(* (notifier/src/main.py) may hold it for a recognition, lets the face     *)
(* rules (face_rules.py) overrule that, and sends it to its channels of    *)
(* these names.  Each has its own copy of openring.yml and takes a new one *)
(* at a time of its own, the notifier in two steps.                        *)
(*                                                                         *)
(* One alert at a time: alerts share nothing but the copies.  An optional  *)
(* value is the set of it: {} is Python's None.                            *)
(***************************************************************************)
EXTENDS Naturals, Sequences

CONSTANTS
    RoutingConfigs,  \* records [rules, ownCamera, deterrents, faceRules, faceOn, channels]
    AlertClasses,    \* what a camera detects
    Recognitions     \* records [status, label]

Press == "doorbell_press"

ASSUME RoutingAssumption ==
    /\ Press \notin AlertClasses
    /\ \A cfg \in RoutingConfigs : \A list \in {cfg.rules, cfg.deterrents, cfg.faceRules} :
          DOMAIN list = 1 .. Len(list) /\ Len(list) \in Nat

VARIABLES
    onFile,    \* openring.yml
    copies,    \* what the detector's rules, the notifier's face rules and its channels
               \* were taken from, and the configuration its watcher has in hand
    alert

routingVars == <<onFile, copies, alert>>

NoAlert == [stage |-> "none"]

-----------------------------------------------------------------------------
(* The rules.                                                              *)

Concerns(rule, class) == rule.class \in {"*", class}

\* Of the rules with these indices the first one.
FirstRule(rules, hits) == {rules[i] : i \in {j \in hits : \A k \in hits : j <= k}}

\* Mutant: the last rule that matches wins.
MatchRulesLast(class, rules) ==
    LET hits == {i \in DOMAIN rules : Concerns(rules[i], class)}
    IN {rules[i].names : i \in {j \in hits : \A k \in hits : k <= j}}

\* "the first rule whose class_name matches (or is the wildcard "*") wins": its names,
\* or None.
MatchRules(class, rules) ==
    {rule.names : rule \in FirstRule(rules, {i \in DOMAIN rules : Concerns(rules[i], class)})}

\* actions_triggered: [] without rules, None when no rule matches.
ActionsOf(class, rules) == IF rules = <<>> THEN {{}} ELSE MatchRules(class, rules)

\* notification_rules, or the action_rules of an old file.
ReadCameraRules(cfg) == cfg.rules

\* _resolve_actions: as for a camera, if the doorbell is one in the file.
ResolveActions(cfg) == ActionsOf(Press, IF cfg.ownCamera THEN cfg.rules ELSE <<>>)

\* matched_groups: nothing unless a rule says so.
GroupsOf(class, rules) == UNION MatchRules(class, rules)

\* Does a face rule match?  The pseudo-labels are "unknown" and "*".
Names(rule, rec) ==
    CASE rule.label = "unknown" -> rec.status = "unknown"
      [] rule.label = "*" -> rec.status = "matched"
      [] OTHER -> rec.status = "matched" /\ rule.label = rec.label

\* face_rules.evaluate: the first rule that matches, None to fall through.
EvaluateFaceRules(recognition, rules) ==
    FirstRule(rules, {i \in DOMAIN rules : \E rec \in recognition : Names(rules[i], rec)})

\* Mutant: a rule that suppresses leaves the empty list, which means every channel.
OverruledByEmptyList(rule) == {rule.names}

\* A rule without channels suppresses (None).
Overruled(rule) == IF rule.names = {} THEN {} ELSE {rule.names}

\* _apply_face_rules: the event's channels, and whether the recognition is still on
\* it: where no rule matches, the event is returned before it is stripped.
ApplyFaceRules(event, recognition) ==
    LET outcome == EvaluateFaceRules(recognition, event.faceRules)
    IN IF outcome = {}
       THEN [actions |-> event.actions, carries |-> recognition]
       ELSE [actions |-> UNION {Overruled(r) : r \in outcome}, carries |-> {}]

\* dispatch: None is nobody, [] everybody, a list its names among the notifiers.
TargetsOf(actions, notifiers) ==
    UNION {IF names = {} THEN notifiers ELSE names \cap notifiers : names \in actions}

-----------------------------------------------------------------------------
(* The alert.                                                              *)

RoutingInit ==
    /\ onFile \in RoutingConfigs
    /\ copies = [detector |-> onFile, faces |-> onFile, notifiers |-> onFile, loading |-> {}]
    /\ alert = NoAlert

\* The configurations that somebody goes by, or will.
InForce == {onFile, copies.detector, copies.faces, copies.notifiers} \union copies.loading

Published(class, actions, groups, since) ==
    [stage |-> "published", class |-> class, actions |-> actions, groups |-> groups,
     faceRules |-> <<>>, since |-> since]

Detect(class) ==
    /\ alert = NoAlert
    /\ alert' = Published(class, ActionsOf(class, ReadCameraRules(copies.detector)),
                          GroupsOf(class, copies.detector.deterrents), InForce)
    /\ UNCHANGED <<onFile, copies>>

\* The handler of a press loads the configuration, and waits for a snapshot before it
\* looks at the rules.
PressArrives ==
    /\ alert = NoAlert
    /\ alert' = [stage |-> "pressed", cfg |-> onFile, since |-> InForce]
    /\ UNCHANGED <<onFile, copies>>

PressPublished ==
    /\ alert.stage = "pressed"
    /\ alert' = Published(Press, ResolveActions(alert.cfg), {}, alert.since)
    /\ UNCHANGED <<onFile, copies>>

Dispatch(recognition) ==
    LET event == ApplyFaceRules(alert, recognition)
    IN /\ alert' = [stage |-> "sent", class |-> alert.class, groups |-> alert.groups,
                    since |-> alert.since, recognition |-> recognition, carries |-> event.carries,
                    told |-> TargetsOf(event.actions, copies.notifiers.channels)]
       /\ UNCHANGED <<onFile, copies>>

\* is_face_class: face_recognition.trigger_classes.
TriggerClasses == {"person"}

\* Face rules are asked about a detection of a trigger class, if they are switched on.
WaitsForFace == alert.class \in TriggerClasses /\ copies.faces.faceOn

ReceiveDirect == alert.stage = "published" /\ ~WaitsForFace /\ Dispatch({})

ReceiveBuffered ==
    /\ alert.stage = "published" /\ WaitsForFace
    /\ alert' = [alert EXCEPT !.stage = "buffered", !.faceRules = copies.faces.faceRules]
    /\ UNCHANGED <<onFile, copies>>

Recognized(rec) == alert.stage = "buffered" /\ Dispatch({rec})
CoalesceTimeout == alert.stage = "buffered" /\ Dispatch({})

NextAlert ==
    /\ alert.stage = "sent"
    /\ alert' = NoAlert
    /\ UNCHANGED <<onFile, copies>>

-----------------------------------------------------------------------------
(* The copies.                                                             *)

\* A save, and with it what an alert under way may be judged by.
SaveFile(cfg) ==
    /\ cfg # onFile
    /\ onFile' = cfg
    /\ alert' = IF alert.stage \in {"pressed", "published", "buffered"}
                THEN [alert EXCEPT !.since = @ \union {cfg}] ELSE alert
    /\ UNCHANGED copies

DetectorReloads ==
    /\ copies' = [copies EXCEPT !.detector = onFile]
    /\ UNCHANGED <<onFile, alert>>

\* _on_config_change of the notifier sets face_cfg_ref, then builds the notifiers.
NotifierTakesFaces ==
    /\ copies.loading = {}
    /\ copies' = [copies EXCEPT !.faces = onFile, !.loading = {onFile}]
    /\ UNCHANGED <<onFile, alert>>

NotifierReplacesChannels ==
    \E cfg \in copies.loading :
        /\ copies' = [copies EXCEPT !.notifiers = cfg, !.loading = {}]
        /\ UNCHANGED <<onFile, alert>>

RoutingNext ==
    \/ \E class \in AlertClasses : Detect(class)
    \/ PressArrives \/ PressPublished \/ ReceiveDirect \/ ReceiveBuffered
    \/ \E rec \in Recognitions : Recognized(rec)
    \/ CoalesceTimeout \/ NextAlert
    \/ \E cfg \in RoutingConfigs : SaveFile(cfg)
    \/ DetectorReloads \/ NotifierTakesFaces \/ NotifierReplacesChannels

RoutingSpec == RoutingInit /\ [][RoutingNext]_routingVars

-----------------------------------------------------------------------------
RoutingTypeOK ==
    /\ onFile \in RoutingConfigs /\ InForce \subseteq RoutingConfigs
    /\ alert.stage \in {"none", "pressed", "published", "buffered", "sent"}

\* What a file means: the rule of a list that decides is the one that no other
\* that holds comes before.
Decides(rules, Holds(_), i) == Holds(rules[i]) /\ \A j \in 1 .. i - 1 : ~Holds(rules[j])

RuleWants(cfg, class, channel) ==
    \/ cfg.rules = <<>>
    \/ class = Press /\ ~cfg.ownCamera
    \/ \E i \in DOMAIN cfg.rules :
          /\ Decides(cfg.rules, LAMBDA r : r.class = class \/ r.class = "*", i)
          /\ cfg.rules[i].names = {} \/ channel \in cfg.rules[i].names

GroupsNamed(cfg) == UNION {cfg.deterrents[i].names : i \in DOMAIN cfg.deterrents}

RuleFires(cfg, class, group) ==
    \E i \in DOMAIN cfg.deterrents :
        /\ Decides(cfg.deterrents, LAMBDA r : r.class = class \/ r.class = "*", i)
        /\ group \in cfg.deterrents[i].names

DecidingFaceRules(cfg, recognition) ==
    {i \in DOMAIN cfg.faceRules :
        \E rec \in recognition : Decides(cfg.faceRules, LAMBDA r : Names(r, rec), i)}

FaceWants(cfg, channel) ==
    \E i \in DecidingFaceRules(cfg, alert.recognition) : channel \in cfg.faceRules[i].names

\* While nobody saves, an alert goes to exactly the enabled channels the file means
\* for it: those of the rule that decides on the face, or else on the class.
SettledRoutes ==
    alert.stage = "sent" =>
        \A cfg \in RoutingConfigs : alert.since = {cfg} =>
            /\ alert.told = {c \in cfg.channels :
                   IF DecidingFaceRules(cfg, alert.recognition) # {}
                   THEN FaceWants(cfg, c) ELSE RuleWants(cfg, alert.class, c)}
            /\ alert.class # Press => \A g \in GroupsNamed(cfg) :
                                        g \in alert.groups <=> RuleFires(cfg, alert.class, g)

\* Whatever is saved meanwhile and taken over in pieces, nobody is told, and nothing
\* fired, that no configuration in force since the detection asks for.
RecipientsWereMeant ==
    alert.stage = "sent" =>
        /\ \A c \in alert.told :
              /\ \E cfg \in alert.since : c \in cfg.channels
              /\ \E cfg \in alert.since : RuleWants(cfg, alert.class, c) \/ FaceWants(cfg, c)
        /\ \A g \in alert.groups : \E cfg \in alert.since : RuleFires(cfg, alert.class, g)

\* Alerts go where the files say.
RoutingHolds == RoutingTypeOK /\ SettledRoutes /\ RecipientsWereMeant

\* "Empty channels=[] means "log the event but suppress notifications""
\* (config/openring.example.yml:63-64): a rule that names no channel tells nobody.
\* The code does not keep this; TLC refutes it (README, section 3).
EmptyRuleIsQuiet ==
    alert.stage = "sent" =>
        \A cfg \in RoutingConfigs :
            /\ alert.since = {cfg} /\ (alert.class = Press => cfg.ownCamera)
            /\ DecidingFaceRules(cfg, alert.recognition) = {}
            /\ \E i \in DOMAIN cfg.rules :
                  /\ cfg.rules[i].names = {}
                  /\ Decides(cfg.rules, LAMBDA r : Concerns(r, alert.class), i)
            => alert.told = {}

\* "Stripping _recognition is load-bearing for privacy": no channel is handed the
\* recognition.
\* The code does not keep this; TLC refutes it (README, section 3).
LabelsStayInside == alert.stage = "sent" => alert.carries = {} \/ alert.told = {}
=============================================================================

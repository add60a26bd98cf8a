------------------------------ MODULE MCCameras ------------------------------
(***************************************************************************)
(* What the detector does over time, each part explored on its own: `part` *)
(* says which, and the others stay asleep.                                 *)
(*                                                                         *)
(*   lifecycle  two cameras, two models, and the configurations a reload   *)
(*              tells apart                                                *)
(*   health     a camera that comes and goes, its thread and the collector *)
(*   schedule   every pair of times of a day of four ticks, and three that *)
(*              are local: the last arms on the next date of UTC           *)
(***************************************************************************)
EXTENDS CameraLifecycle, CameraHealth, ArmSchedule, TLC

CONSTANTS a, b, m1, m2

VARIABLE part

On(model, classes, tuning) == [model |-> model, classes |-> classes, tuning |-> tuning]
Cfg(model, classes, ofA, ofB) ==
    [model |-> model, classes |-> classes, cameras |-> (a :> ofA @@ b :> ofB)]

MCConfigs ==
    {Cfg(m1, 1, On(Default, "global", 1), Off),
     Cfg(m1, 1, On(Default, "global", 2), On(m2, "own", 1)),
     Cfg(m2, 2, On(Default, "global", 2), On(m2, "global", 1))}

MCSchedules ==
    {[arm |-> arm, disarm |-> disarm, west |-> 0] : arm, disarm \in 0 .. 3}
    \cup {[arm |-> 0, disarm |-> 2, west |-> 1], [arm |-> 3, disarm |-> 1, west |-> -1],
          [arm |-> 3, disarm |-> 1, west |-> 2]}

camerasVars == <<part, vars, outageVars, scheduleVars>>

CamerasInit ==
    /\ part \in {"lifecycle", "health", "schedule"}
    /\ Init /\ HealthInit /\ ScheduleInit
    /\ part # "lifecycle" =>
          /\ onDisk = Models
          /\ file = CHOOSE cfg \in Configs : Enabled(cfg) # {}
    /\ part # "health" => cameraUp
    /\ part # "schedule" => ~enabled /\ times = CHOOSE schedule \in Schedules : TRUE

LifecyclePart == UNCHANGED <<outageVars, scheduleVars>> /\ Next
HealthPart == UNCHANGED <<vars, scheduleVars>> /\ HealthNext
SchedulePart == UNCHANGED <<vars, outageVars>> /\ ScheduleNext

CamerasNext ==
    /\ UNCHANGED part
    /\ \/ part = "lifecycle" /\ LifecyclePart
       \/ part = "health" /\ HealthPart
       \/ part = "schedule" /\ SchedulePart

\* The fairness of each part, as its module states it, while it is the one that
\* runs: a part that sleeps owes no step.
CamerasFairness ==
    /\ WF_vars(part = "lifecycle" /\ Step)
    /\ WF_outageVars(part = "health" /\ ReaderStep)
    /\ WF_outageVars(part = "health" /\ CollectorStep)
    /\ WF_outageVars(part = "health" /\ HealthTick)

CamerasSpec == CamerasInit /\ [][CamerasNext]_camerasVars /\ CamerasFairness
=============================================================================

----------------------- MODULE CameraLifecycleProofs -----------------------
(***************************************************************************)
(* Theorems about CameraLifecycle, for every finite set of cameras, every  *)
(* set of models and every set of configurations, about CameraHealth, for  *)
(* every delay, debounce and threshold, and about ArmSchedule, for every   *)
(* schedule.                                                               *)
(***************************************************************************)
EXTENDS CameraLifecycle, CameraHealth, ArmSchedule, SeqLemmas, FiniteSetTheorems, TLAPS

Stopping == reload.at \in {"stopping", "stopped", "restart"}

\* The loop the reload is in, a camera it stops on the way included.
Loop == IF Stopping THEN reload.back ELSE reload.at

\* What the loops of start-up and reload rely on: whom they start is not running
\* and whom they stop is.
Loops ==
    /\ Loop = "starting" => /\ reload.old = {}
                            /\ reload.todo \subseteq Enabled(loaded) \ Active
    /\ Loop = "classes" => /\ Active \subseteq reload.old
                           /\ reload.todo \subseteq Active \cap Enabled(loaded)
    /\ Loop = "cameras" => /\ reload.todo \subseteq Enabled(loaded)
                           /\ (reload.todo \ reload.old) \cap Active = {}
    /\ Loop \in {"classes", "cameras"} => reload.old \ Enabled(loaded) \subseteq Active
    /\ Loop = "removed" => reload.todo \subseteq Active \ Enabled(loaded)
    /\ Stopping => /\ reload.camera \notin Active \cup reload.todo
                   /\ reload.back # "removed" => reload.camera \in Enabled(loaded)
                   /\ reload.back = "removed" => reload.camera \notin Enabled(loaded)
                   /\ reload.back = "classes" => reload.camera \in reload.old
    /\ reload.at = "restart" => reload.back # "removed"

\* What of the file is in force: the enabled cameras the loop is through with run
\* as they should, and those that should not run at all are still to be removed.
Settled(c) == active[c] = IF c \in reload.missed THEN Off ELSE Wanted(c)
Progress ==
    /\ reload.missed \cap Active = {}
    /\ Loop \in {"starting", "cameras", "removed"} =>
          \A c \in Enabled(loaded) \ (reload.todo \cup {reload.camera}) : Settled(c)
    /\ Loop = "starting" => Active \subseteq Enabled(loaded)
    /\ Loop \in {"classes", "cameras"} => Active \subseteq reload.old \cup Enabled(loaded)
    /\ Loop = "removed" => Active \subseteq reload.todo \cup Enabled(loaded)

IInv == TypeOK /\ Loops /\ Progress /\ PoolCountsCameras /\ CompleteReload /\ StoppedIsForgotten

Using(m) == {c \in Active : active[c].model = m}

\* The camera being stopped still counts for its model.
Held(m) == IF reload.state # Off /\ reload.state.model = m THEN 1 ELSE 0

LEMMA CountsAre ==
    PoolCountsCameras <=> \A m \in Models : refs[m] = Cardinality(Using(m)) + Held(m)
  BY DEF PoolCountsCameras, Using, Held

-----------------------------------------------------------------------------
\* What _start_camera runs is a thread's settings.
LEMMA WantedIsThread == ASSUME TypeOK, NEW c \in Enabled(loaded) PROVE Wanted(c) \in Thread
<1>1. loaded \in Config
  BY LifecycleAssumption DEF TypeOK
<1>2. loaded.model \in Models /\ loaded.cameras[c] \in Section
  BY <1>1 DEF Enabled, Config
<1> QED BY <1>2, LifecycleAssumption DEF Wanted, Resolve, Section, Thread

LEMMA ActiveAreThreads ==
    ASSUME TypeOK PROVE Active \subseteq Cameras /\ \A c \in Active : active[c] \in Thread
  BY DEF TypeOK, Active

LEMMA OffIsNoThread == Off \notin Thread
  BY LifecycleAssumption DEF Thread, Section

LEMMA EnabledAreCameras == ASSUME NEW cfg PROVE Enabled(cfg) \subseteq Cameras
  BY DEF Enabled

LEMMA CamerasFinite ==
    ASSUME NEW S \in SUBSET Cameras PROVE IsFiniteSet(S) /\ Cardinality(S) \in Nat
  BY LifecycleAssumption, FS_Subset, FS_CardinalityType

LEMMA UsingFinite == ASSUME NEW m PROVE IsFiniteSet(Using(m)) /\ Cardinality(Using(m)) \in Nat
<1>1. Using(m) \in SUBSET Cameras
  BY DEF Using, Active
<1> QED BY <1>1, CamerasFinite

LEMMA NobodyHeld ==
    ASSUME PoolCountsCameras, reload.state = Off, NEW m \in Models
    PROVE  refs[m] = Cardinality(Using(m))
<1>1. refs[m] = Cardinality(Using(m)) + Held(m)
  BY CountsAre
<1>2. Held(m) = 0
  BY DEF Held
<1> QED BY <1>1, <1>2, UsingFinite

\* With nobody held after a step, counting the users is enough.
LEMMA CountUsers ==
    ASSUME reload'.state = Off, \A m \in Models : refs'[m] = Cardinality(Using(m)')
    PROVE  PoolCountsCameras'
<1>1. ASSUME NEW m \in Models PROVE refs'[m] = Cardinality(Using(m)') + Held(m)'
  <2>1. Held(m)' = 0
    BY DEF Held
  <2>2. Using(m)' \in SUBSET Cameras
    BY DEF Using, Active
  <2>3. Cardinality(Using(m)') \in Nat
    BY <2>2, CamerasFinite
  <2> QED BY <2>1, <2>3
<1>2. (PoolCountsCameras <=> \A m \in Models : refs[m] = Cardinality(Using(m)) + Held(m))'
  BY CountsAre, PTL
<1> QED BY <1>1, <1>2

-----------------------------------------------------------------------------
\* The two changes of active_cameras, and what they do to the counts.
LEMMA StartTypes ==
    ASSUME TypeOK, NEW c \in Enabled(loaded), NEW next \in Reload, StartCamera(c, next),
           next.camera = Off, next.state = Off,
           next.at \notin {"stopping", "stopped", "restart"}
    PROVE  TypeOK'
<1>1. Wanted(c) \in Thread /\ c \in Cameras
  BY WantedIsThread, EnabledAreCameras
<1>2. Wanted(c).model \in Models
  BY <1>1 DEF Thread
<1>3. active' \in [Cameras -> Thread \cup {Off}] /\ refs' \in [Models -> Nat]
  BY <1>1, <1>2 DEF StartCamera, More, TypeOK, threadVars
<1>4. reload' \in Reload /\ reload'.camera = Off /\ reload'.state = Off /\ reload'.at = next.at
  BY <1>1 DEF StartCamera, Reload
<1> QED BY <1>3, <1>4 DEF StartCamera, TypeOK, fileVars, healthVars

LEMMA StartEffect ==
    ASSUME TypeOK, NEW c \in Enabled(loaded) \ Active, NEW next \in Reload, StartCamera(c, next)
    PROVE  /\ \A d \in Cameras \ {c} : active'[d] = active[d]
           /\ \/ /\ Active' = Active \cup {c}
                 /\ active'[c] = Wanted(c) /\ reload'.missed = next.missed \ {c}
              \/ /\ Active' = Active
                 /\ active'[c] = Off /\ reload'.missed = next.missed \cup {c}
           /\ reload'.at = next.at /\ reload'.old = next.old /\ reload'.todo = next.todo
           /\ reload'.camera = next.camera /\ reload'.state = next.state
           /\ reload'.back = next.back /\ reload'.raised = next.raised
           /\ loaded' = loaded /\ tracked' = tracked /\ outlived' = outlived
<1>1. c \in Cameras /\ Wanted(c) # Off
  BY EnabledAreCameras, WantedIsThread, OffIsNoThread
<1>2. CASE Wanted(c).model \in onDisk
  BY <1>1, <1>2 DEF StartCamera, Active, TypeOK, Reload, healthVars
<1>3. CASE Wanted(c).model \notin onDisk
  BY <1>1, <1>3 DEF StartCamera, Active, TypeOK, Reload, healthVars, threadVars
<1> QED BY <1>2, <1>3

LEMMA StartCounts ==
    ASSUME TypeOK, PoolCountsCameras, NEW c \in Enabled(loaded) \ Active, NEW next \in Reload,
           StartCamera(c, next), reload.state = Off, next.state = Off
    PROVE  PoolCountsCameras'
<1>1. Wanted(c) \in Thread /\ c \in Cameras
  BY WantedIsThread, EnabledAreCameras
<1>2. reload'.state = Off
  BY DEF StartCamera, Reload
<1>3. \A m \in Models : refs[m] = Cardinality(Using(m))
  BY NobodyHeld
<1>4. CASE Wanted(c).model \notin onDisk
  <2>1. active' = active /\ refs' = refs
    BY <1>4 DEF StartCamera, threadVars
  <2>2. \A m \in Models : Using(m)' = Using(m)
    BY <2>1 DEF Using, Active
  <2> QED BY <2>1, <2>2, <1>2, <1>3, CountUsers
<1>5. CASE Wanted(c).model \in onDisk
  <2>1. /\ active' = [active EXCEPT ![c] = Wanted(c)]
        /\ refs' = [refs EXCEPT ![Wanted(c).model] = @ + 1]
    BY <1>5 DEF StartCamera, More
  <2> SUFFICES ASSUME NEW m \in Models PROVE refs'[m] = Cardinality(Using(m)')
    BY <1>2, CountUsers
  <2>2. c \notin Using(m)
    BY DEF Using
  <2>3. CASE m = Wanted(c).model
    <3>1. Using(m)' = Using(m) \cup {c}
      BY <1>1, <2>1, <2>3, OffIsNoThread DEF Using, Active, TypeOK
    <3>2. Cardinality(Using(m)') = Cardinality(Using(m)) + 1
      BY <3>1, <2>2, UsingFinite, FS_AddElement
    <3> QED BY <3>2, <2>1, <2>3, <1>3 DEF TypeOK
  <2>4. CASE m # Wanted(c).model
    <3>1. Using(m)' = Using(m)
      BY <1>1, <2>1, <2>2, <2>4 DEF Using, Active, TypeOK
    <3> QED BY <3>1, <2>1, <2>4, <1>3 DEF TypeOK
  <2> QED BY <2>3, <2>4
<1> QED BY <1>4, <1>5

LEMMA StopTypes ==
    ASSUME TypeOK, NEW c \in Active, StopCamera(c), reload.at \in Phases
    PROVE  TypeOK'
<1>1. c \in Cameras /\ active[c] \in Thread
  BY ActiveAreThreads
<1>2. /\ reload' \in Reload
      /\ reload'.camera = c /\ reload'.state = active[c] /\ reload'.at = "stopping"
  BY <1>1 DEF StopCamera, Reload, TypeOK
<1>3. active' \in [Cameras -> Thread \cup {Off}]
  BY DEF StopCamera, TypeOK
<1>4. c # Off /\ active[c] # Off
  BY <1>1, OffIsNoThread, LifecycleAssumption
<1> QED BY <1>2, <1>3, <1>4 DEF StopCamera, TypeOK, fileVars, healthVars

LEMMA StopCounts ==
    ASSUME TypeOK, PoolCountsCameras, NEW c \in Active, StopCamera(c), reload.at \in Phases
    PROVE  PoolCountsCameras'
<1>1. c \in Cameras /\ active[c] \in Thread
  BY ActiveAreThreads
<1>2. reload'.state = active[c] /\ reload.state = Off /\ active[c] # Off
  BY <1>1, OffIsNoThread DEF StopCamera, Reload, TypeOK, Phases
<1>3. active' = [active EXCEPT ![c] = Off] /\ refs' = refs
  BY DEF StopCamera
<1> SUFFICES ASSUME NEW m \in Models
             PROVE  refs[m] = Cardinality(Using(m)') + IF active[c].model = m THEN 1 ELSE 0
  BY <1>2, <1>3 DEF PoolCountsCameras, Using
<1>4. refs[m] = Cardinality(Using(m))
  BY <1>2, NobodyHeld
<1>5. Using(m)' = Using(m) \ {c}
  BY <1>1, <1>3 DEF Using, Active, TypeOK
<1>6. CASE active[c].model = m
  <2>1. c \in Using(m)
    BY <1>6 DEF Using
  <2>2. Cardinality(Using(m) \ {c}) = Cardinality(Using(m)) - 1
    BY <2>1, UsingFinite, FS_RemoveElement
  <2> QED BY <2>2, <1>4, <1>5, <1>6, UsingFinite
<1>7. CASE active[c].model # m
  <2>1. Using(m) \ {c} = Using(m)
    BY <1>7 DEF Using
  <2> QED BY <2>1, <1>4, <1>5, <1>7, UsingFinite
<1> QED BY <1>6, <1>7

-----------------------------------------------------------------------------
\* One lemma per action: it preserves the invariant.
USE DEF fileVars, threadVars, healthVars, Phases, Reload

LEMMA WatcherStartsInv == ASSUME IInv, WatcherStarts PROVE IInv'
<1>1. TypeOK'
  BY DEF IInv, TypeOK, WatcherStarts
<1>2. Loops'
  BY DEF IInv, Loops, Loop, Stopping, Active, TypeOK, WatcherStarts
<1>3. Progress'
  BY EnabledAreCameras, LifecycleAssumption DEF IInv, Progress, Settled, Wanted, Loop, Stopping, Active, Loops, TypeOK,
     WatcherStarts
<1>4. PoolCountsCameras'
  BY DEF IInv, PoolCountsCameras, Active, TypeOK, WatcherStarts
<1>5. CompleteReload'
  BY EnabledAreCameras, LifecycleAssumption DEF IInv, CompleteReload, Progress, Loops, Settled, Loop, Stopping, Enabled,
     Active, Wanted, TypeOK, WatcherStarts
<1>6. StoppedIsForgotten'
  BY DEF IInv, StoppedIsForgotten, Active, TypeOK, WatcherStarts
<1> QED BY <1>1, <1>2, <1>3, <1>4, <1>5, <1>6 DEF IInv

LEMMA PollInv == ASSUME IInv, Poll PROVE IInv'
<1>1. TypeOK'
  BY DEF IInv, TypeOK, Poll
<1>2. Loops'
  BY DEF IInv, Loops, Loop, Stopping, Active, TypeOK, Poll
<1>3. Progress'
  BY EnabledAreCameras, LifecycleAssumption DEF IInv, Progress, Settled, Wanted, Loop, Stopping, Active, Loops, TypeOK,
     Poll
<1>4. PoolCountsCameras'
  BY DEF IInv, PoolCountsCameras, Active, TypeOK, Poll
<1>5. CompleteReload'
  BY DEF IInv, CompleteReload, Active, Wanted, TypeOK, Poll
<1>6. StoppedIsForgotten'
  BY DEF IInv, StoppedIsForgotten, Active, TypeOK, Poll
<1> QED BY <1>1, <1>2, <1>3, <1>4, <1>5, <1>6 DEF IInv

LEMMA LoadTornInv == ASSUME IInv, LoadTorn PROVE IInv'
<1>1. TypeOK'
  BY DEF IInv, TypeOK, LoadTorn
<1>2. Loops'
  BY DEF IInv, Loops, Loop, Stopping, Active, TypeOK, LoadTorn
<1>3. Progress'
  BY EnabledAreCameras, LifecycleAssumption DEF IInv, Progress, Settled, Wanted, Loop, Stopping, Active, Loops, TypeOK,
     LoadTorn
<1>4. PoolCountsCameras'
  BY DEF IInv, PoolCountsCameras, Active, TypeOK, LoadTorn
<1>5. CompleteReload'
  BY DEF IInv, CompleteReload, Active, Wanted, TypeOK, LoadTorn
<1>6. StoppedIsForgotten'
  BY DEF IInv, StoppedIsForgotten, Active, TypeOK, LoadTorn
<1> QED BY <1>1, <1>2, <1>3, <1>4, <1>5, <1>6 DEF IInv

LEMMA LoadInv == ASSUME IInv, Load PROVE IInv'
<1>1. TypeOK'
  BY DEF IInv, TypeOK, Active, Load
<1>2. Loops'
  BY DEF IInv, Loops, Loop, Stopping, Active, TypeOK, Load
<1>3. Progress'
  BY EnabledAreCameras, LifecycleAssumption DEF IInv, Progress, Settled, Wanted, Loop, Stopping, Active, Loops, TypeOK,
     Load
<1>4. PoolCountsCameras'
  BY DEF IInv, PoolCountsCameras, Active, TypeOK, Load
<1>5. CompleteReload'
  BY DEF IInv, CompleteReload, Active, Wanted, TypeOK, Load
<1>6. StoppedIsForgotten'
  BY DEF IInv, StoppedIsForgotten, Active, TypeOK, Load
<1> QED BY <1>1, <1>2, <1>3, <1>4, <1>5, <1>6 DEF IInv

LEMMA ClassesDoneInv == ASSUME IInv, ClassesDone PROVE IInv'
<1>1. TypeOK'
  BY EnabledAreCameras DEF IInv, TypeOK, ClassesDone, NextLoop
<1>2. Loops'
  BY DEF IInv, Loops, Loop, Stopping, Active, TypeOK, ClassesDone, NextLoop
<1>3. Progress'
  BY EnabledAreCameras, LifecycleAssumption DEF IInv, Progress, Settled, Wanted, Loop, Stopping, Active, Loops, TypeOK,
     ClassesDone, NextLoop
<1>4. PoolCountsCameras'
  BY DEF IInv, PoolCountsCameras, Active, TypeOK, ClassesDone, NextLoop
<1>5. CompleteReload'
  BY DEF IInv, CompleteReload, Active, Wanted, TypeOK, ClassesDone, NextLoop
<1>6. StoppedIsForgotten'
  BY DEF IInv, StoppedIsForgotten, Active, TypeOK, ClassesDone, NextLoop
<1> QED BY <1>1, <1>2, <1>3, <1>4, <1>5, <1>6 DEF IInv

LEMMA CamerasDoneInv == ASSUME IInv, CamerasDone PROVE IInv'
<1>1. TypeOK'
  BY EnabledAreCameras DEF IInv, TypeOK, CamerasDone, NextLoop
<1>2. Loops'
  BY DEF IInv, Loops, Loop, Stopping, Active, TypeOK, CamerasDone, NextLoop
<1>3. Progress'
  BY EnabledAreCameras, LifecycleAssumption DEF IInv, Progress, Settled, Wanted, Loop, Stopping, Active, Loops, TypeOK,
     CamerasDone, NextLoop
<1>4. PoolCountsCameras'
  BY DEF IInv, PoolCountsCameras, Active, TypeOK, CamerasDone, NextLoop
<1>5. CompleteReload'
  BY DEF IInv, CompleteReload, Active, Wanted, TypeOK, CamerasDone, NextLoop
<1>6. StoppedIsForgotten'
  BY DEF IInv, StoppedIsForgotten, Active, TypeOK, CamerasDone, NextLoop
<1> QED BY <1>1, <1>2, <1>3, <1>4, <1>5, <1>6 DEF IInv

LEMMA ReloadDoneInv == ASSUME IInv, ReloadDone PROVE IInv'
<1>1. TypeOK'
  BY DEF IInv, TypeOK, ReloadDone, NextLoop
<1>2. Loops'
  BY DEF IInv, Loops, Loop, Stopping, Active, TypeOK, ReloadDone, NextLoop
<1>3. Progress'
  BY EnabledAreCameras, LifecycleAssumption DEF IInv, Progress, Settled, Wanted, Loop, Stopping, Active, Loops, TypeOK,
     ReloadDone, NextLoop
<1>4. PoolCountsCameras'
  BY DEF IInv, PoolCountsCameras, Active, TypeOK, ReloadDone, NextLoop
<1>5. CompleteReload'
  BY EnabledAreCameras, LifecycleAssumption DEF IInv, CompleteReload, Progress, Loops, Settled, Loop, Stopping, Enabled,
     Active, Wanted, TypeOK, ReloadDone, NextLoop
<1>6. StoppedIsForgotten'
  BY DEF IInv, StoppedIsForgotten, Active, TypeOK, ReloadDone, NextLoop
<1> QED BY <1>1, <1>2, <1>3, <1>4, <1>5, <1>6 DEF IInv

LEMMA JoinEndsInv == ASSUME IInv, JoinEnds PROVE IInv'
<1>1. TypeOK'
  BY DEF IInv, TypeOK, JoinEnds
<1>2. Loops'
  BY DEF IInv, Loops, Loop, Stopping, Active, TypeOK, JoinEnds
<1>3. Progress'
  BY EnabledAreCameras, LifecycleAssumption DEF IInv, Progress, Settled, Wanted, Loop, Stopping, Active, Loops, TypeOK,
     JoinEnds
<1>4. PoolCountsCameras'
  BY DEF IInv, PoolCountsCameras, Active, TypeOK, JoinEnds
<1>5. CompleteReload'
  BY DEF IInv, CompleteReload, Active, Wanted, TypeOK, JoinEnds
<1>6. StoppedIsForgotten'
  BY DEF IInv, StoppedIsForgotten, Active, TypeOK, JoinEnds
<1> QED BY <1>1, <1>2, <1>3, <1>4, <1>5, <1>6 DEF IInv

LEMMA JoinTimesOutInv == ASSUME IInv, JoinTimesOut PROVE IInv'
<1>1. TypeOK'
  BY DEF IInv, TypeOK, JoinTimesOut
<1>2. Loops'
  BY DEF IInv, Loops, Loop, Stopping, Active, TypeOK, JoinTimesOut
<1>3. Progress'
  BY EnabledAreCameras, LifecycleAssumption DEF IInv, Progress, Settled, Wanted, Loop, Stopping, Active, Loops, TypeOK,
     JoinTimesOut
<1>4. PoolCountsCameras'
  BY DEF IInv, PoolCountsCameras, Active, TypeOK, JoinTimesOut
<1>5. CompleteReload'
  BY DEF IInv, CompleteReload, Active, Wanted, TypeOK, JoinTimesOut
<1>6. StoppedIsForgotten'
  BY DEF IInv, StoppedIsForgotten, Active, TypeOK, JoinTimesOut
<1> QED BY <1>1, <1>2, <1>3, <1>4, <1>5, <1>6 DEF IInv

LEMMA AddCameraInv == ASSUME IInv, NEW c \in Cameras, AddCamera(c) PROVE IInv'
<1> DEFINE next == [reload EXCEPT !.todo = @ \ {c}]
<1>0. /\ TypeOK /\ PoolCountsCameras /\ StartCamera(c, next) /\ c \in Enabled(loaded) \ Active
      /\ next \in Reload /\ next.camera = Off /\ next.state = Off /\ reload.state = Off
      /\ next.at \notin {"stopping", "stopped", "restart"}
  BY LifecycleAssumption DEF IInv, TypeOK, Loops, Loop, Stopping, AddCamera
<1>1. TypeOK'
  BY <1>0, StartTypes
<1>2. Loops'
  BY <1>0, StartEffect, EnabledAreCameras
  DEF IInv, Loops, Loop, Stopping, TypeOK, AddCamera, Enabled
<1>3. Progress'
  BY <1>0, StartEffect, EnabledAreCameras, LifecycleAssumption
  DEF IInv, Progress, Settled, Wanted, Loops, Loop, Stopping, TypeOK, AddCamera, Enabled
<1>4. PoolCountsCameras'
  BY <1>0, StartCounts
<1>5. CompleteReload'
  BY <1>0, StartEffect DEF IInv, CompleteReload, AddCamera
<1>6. StoppedIsForgotten'
  BY <1>0, StartEffect DEF IInv, StoppedIsForgotten, AddCamera
<1> QED BY <1>1, <1>2, <1>3, <1>4, <1>5, <1>6 DEF IInv

LEMMA RestartInv == ASSUME IInv, Restart PROVE IInv'
<1> DEFINE next == [reload EXCEPT !.at = reload.back, !.camera = Off]
<1>0. PICK c \in Cameras : c = reload.camera
  BY DEF IInv, TypeOK, Restart
<1>1. /\ TypeOK /\ PoolCountsCameras /\ StartCamera(c, next) /\ c \in Enabled(loaded) \ Active
      /\ next \in Reload /\ next.state = Off /\ reload.state = Off
      /\ reload.at = "restart" /\ reload.back \in {"classes", "cameras"} /\ c \notin reload.todo
  BY <1>0, LifecycleAssumption DEF IInv, TypeOK, Loops, Loop, Stopping, Restart
<1>2. /\ next.at = reload.back /\ next.camera = Off /\ next.old = reload.old
      /\ next.todo = reload.todo /\ next.missed = reload.missed
  BY <1>1 DEF TypeOK
<1> HIDE DEF next
<1>3. TypeOK'
  BY <1>1, <1>2, StartTypes
<1>4. Loops'
  <2>1. /\ Loop = reload.back /\ Loop' = reload.back /\ ~ Stopping'
        /\ reload'.at = reload.back /\ reload'.old = reload.old /\ reload'.todo = reload.todo
        /\ loaded' = loaded
        /\ Active' = Active \/ Active' = Active \cup {c}
    BY <1>1, <1>2, StartEffect DEF Loop, Stopping
  <2>2. Enabled(loaded)' = Enabled(loaded)
    BY <2>1
  <2>3. CASE reload.back = "classes"
    <3>1. c \in reload.old
      BY <1>0, <1>1, <2>3 DEF IInv, Loops, Stopping
    <3> QED BY <1>1, <2>1, <2>2, <2>3, <3>1 DEF IInv, Loops
  <2>4. CASE reload.back = "cameras"
    BY <1>1, <2>1, <2>2, <2>4 DEF IInv, Loops
  <2> QED BY <1>1, <2>3, <2>4
<1>5. Progress'
  BY <1>0, <1>1, <1>2, StartEffect, EnabledAreCameras, LifecycleAssumption
  DEF IInv, Progress, Settled, Wanted, Loops, Loop, Stopping, TypeOK, Enabled
<1>6. PoolCountsCameras'
  BY <1>1, StartCounts
<1>7. CompleteReload'
  BY <1>1, <1>2, StartEffect DEF CompleteReload
<1>8. StoppedIsForgotten'
  BY <1>1, <1>2, StartEffect DEF IInv, StoppedIsForgotten
<1> QED BY <1>3, <1>4, <1>5, <1>6, <1>7, <1>8 DEF IInv

LEMMA RestartForClassesInv == ASSUME IInv, NEW c \in Cameras, RestartForClasses(c) PROVE IInv'
<1>0. TypeOK /\ PoolCountsCameras /\ StopCamera(c) /\ c \in Active /\ reload.at \in Phases
  BY DEF IInv, Loops, Loop, Stopping, RestartForClasses
<1>1. TypeOK'
  BY <1>0, StopTypes
<1>2. Loops'
  BY DEF IInv, Loops, Loop, Stopping, Active, TypeOK, RestartForClasses, StopCamera
<1>3. Progress'
  BY EnabledAreCameras, LifecycleAssumption DEF IInv, Progress, Settled, Wanted, Loop, Stopping, Active, Loops, TypeOK,
     RestartForClasses, StopCamera
<1>4. PoolCountsCameras'
  BY <1>0, StopCounts
<1>5. CompleteReload'
  BY DEF IInv, CompleteReload, Active, Wanted, TypeOK, RestartForClasses, StopCamera
<1>6. StoppedIsForgotten'
  BY DEF IInv, StoppedIsForgotten, Active, TypeOK, RestartForClasses, StopCamera
<1> QED BY <1>1, <1>2, <1>3, <1>4, <1>5, <1>6 DEF IInv

LEMMA RemoveCameraInv == ASSUME IInv, NEW c \in Cameras, RemoveCamera(c) PROVE IInv'
<1>0. TypeOK /\ PoolCountsCameras /\ StopCamera(c) /\ c \in Active /\ reload.at \in Phases
  BY DEF IInv, Loops, Loop, Stopping, RemoveCamera
<1>1. TypeOK'
  BY <1>0, StopTypes
<1>2. Loops'
  BY DEF IInv, Loops, Loop, Stopping, Active, TypeOK, RemoveCamera, StopCamera
<1>3. Progress'
  BY EnabledAreCameras, LifecycleAssumption DEF IInv, Progress, Settled, Wanted, Loop, Stopping, Active, Loops, TypeOK,
     RemoveCamera, StopCamera
<1>4. PoolCountsCameras'
  BY <1>0, StopCounts
<1>5. CompleteReload'
  BY DEF IInv, CompleteReload, Active, Wanted, TypeOK, RemoveCamera, StopCamera
<1>6. StoppedIsForgotten'
  BY DEF IInv, StoppedIsForgotten, Active, TypeOK, RemoveCamera, StopCamera
<1> QED BY <1>1, <1>2, <1>3, <1>4, <1>5, <1>6 DEF IInv

LEMMA UpdateRaisesInv == ASSUME IInv, NEW c \in Cameras, UpdateRaises(c) PROVE IInv'
<1>1. TypeOK'
  BY DEF IInv, TypeOK, UpdateRaises
<1>2. Loops'
  BY DEF IInv, Loops, Loop, Stopping, Active, TypeOK, UpdateRaises
<1>3. Progress'
  BY EnabledAreCameras, LifecycleAssumption DEF IInv, Progress, Settled, Wanted, Loop, Stopping, Active, Loops, TypeOK,
     UpdateRaises
<1>4. PoolCountsCameras'
  BY DEF IInv, PoolCountsCameras, Active, TypeOK, UpdateRaises
<1>5. CompleteReload'
  BY DEF IInv, CompleteReload, Active, Wanted, TypeOK, UpdateRaises
<1>6. StoppedIsForgotten'
  BY DEF IInv, StoppedIsForgotten, Active, TypeOK, UpdateRaises
<1> QED BY <1>1, <1>2, <1>3, <1>4, <1>5, <1>6 DEF IInv

LEMMA ReleaseInv == ASSUME IInv, Release PROVE IInv'
<1>0. reload.state \in Thread /\ reload.state.model \in Models
  BY DEF IInv, TypeOK, Thread, Release, GivesUp
<1>1. TypeOK'
  <2>1. refs' \in [Models -> Nat]
    BY <1>0 DEF IInv, TypeOK, Release, GivesUp, Fewer
  <2>2. /\ reload' \in Reload /\ reload'.state = Off
        /\ reload'.camera # Off <=> reload'.at = "restart"
        /\ reload'.at \in {"removed", "restart"}
    BY DEF IInv, TypeOK, Release, GivesUp
  <2> QED BY <2>1, <2>2 DEF IInv, TypeOK, Release, GivesUp
<1>2. Loops'
  BY DEF IInv, Loops, Loop, Stopping, Active, TypeOK, Release, GivesUp, Fewer
<1>3. Progress'
  BY EnabledAreCameras, LifecycleAssumption DEF IInv, Progress, Settled, Wanted, Loop, Stopping, Active, Loops, TypeOK,
     Release, GivesUp, Fewer
<1>4. PoolCountsCameras'
  <2> DEFINE m0 == reload.state.model
  <2>1. reload'.state = Off /\ active' = active /\ refs' = Fewer(m0)
    BY DEF IInv, TypeOK, Release, GivesUp
  <2>2. \A m \in Models : Using(m)' = Using(m)
    BY <2>1 DEF Using, Active
  <2>3. ASSUME NEW m \in Models PROVE refs'[m] = Cardinality(Using(m))
    <3>1. refs[m] = Cardinality(Using(m)) + Held(m) /\ Cardinality(Using(m)) \in Nat
      BY CountsAre, UsingFinite DEF IInv
    <3>2. CASE m = m0
      <4>1. Held(m) = 1
        BY <1>0, <3>2, OffIsNoThread DEF Held
      <4> QED BY <2>1, <3>1, <3>2, <4>1 DEF Fewer, IInv, TypeOK
    <3>3. CASE m # m0
      <4>1. Held(m) = 0
        BY <3>3 DEF Held
      <4> QED BY <2>1, <3>1, <3>3, <4>1 DEF Fewer, IInv, TypeOK
    <3> QED BY <3>2, <3>3
  <2> QED BY <2>1, <2>2, <2>3, CountUsers
<1>5. CompleteReload'
  BY DEF IInv, CompleteReload, Active, Wanted, TypeOK, Release, GivesUp, Fewer
<1>6. StoppedIsForgotten'
  BY DEF IInv, StoppedIsForgotten, Active, TypeOK, Release, GivesUp, Fewer
<1> QED BY <1>1, <1>2, <1>3, <1>4, <1>5, <1>6 DEF IInv

LEMMA ReportInv == ASSUME IInv, NEW c \in Cameras, Report(c) PROVE IInv'
<1>1. TypeOK'
  BY DEF IInv, TypeOK, Report
<1>2. Loops'
  BY DEF IInv, Loops, Loop, Stopping, Active, TypeOK, Report
<1>3. Progress'
  BY EnabledAreCameras, LifecycleAssumption DEF IInv, Progress, Settled, Wanted, Loop, Stopping, Active, Loops, TypeOK,
     Report
<1>4. PoolCountsCameras'
  BY DEF IInv, PoolCountsCameras, Active, TypeOK, Report
<1>5. CompleteReload'
  BY DEF IInv, CompleteReload, Active, Wanted, TypeOK, Report
<1>6. StoppedIsForgotten'
  BY DEF IInv, StoppedIsForgotten, Active, TypeOK, Report
<1> QED BY <1>1, <1>2, <1>3, <1>4, <1>5, <1>6 DEF IInv

LEMMA SaveInv == ASSUME IInv, NEW cfg \in Configs, Save(cfg) PROVE IInv'
<1>1. TypeOK'
  BY DEF IInv, TypeOK, Save
<1>2. Loops'
  BY DEF IInv, Loops, Loop, Stopping, Active, TypeOK, Save
<1>3. Progress'
  BY EnabledAreCameras, LifecycleAssumption DEF IInv, Progress, Settled, Wanted, Loop, Stopping, Active, Loops, TypeOK,
     Save
<1>4. PoolCountsCameras'
  BY DEF IInv, PoolCountsCameras, Active, TypeOK, Save
<1>5. CompleteReload'
  BY DEF IInv, CompleteReload, Active, Wanted, TypeOK, Save
<1>6. StoppedIsForgotten'
  BY DEF IInv, StoppedIsForgotten, Active, TypeOK, Save
<1> QED BY <1>1, <1>2, <1>3, <1>4, <1>5, <1>6 DEF IInv

LEMMA RestoreTruncatesInv == ASSUME IInv, RestoreTruncates PROVE IInv'
<1>1. TypeOK'
  BY DEF IInv, TypeOK, RestoreTruncates
<1>2. Loops'
  BY DEF IInv, Loops, Loop, Stopping, Active, TypeOK, RestoreTruncates
<1>3. Progress'
  BY EnabledAreCameras, LifecycleAssumption DEF IInv, Progress, Settled, Wanted, Loop, Stopping, Active, Loops, TypeOK,
     RestoreTruncates
<1>4. PoolCountsCameras'
  BY DEF IInv, PoolCountsCameras, Active, TypeOK, RestoreTruncates
<1>5. CompleteReload'
  BY DEF IInv, CompleteReload, Active, Wanted, TypeOK, RestoreTruncates
<1>6. StoppedIsForgotten'
  BY DEF IInv, StoppedIsForgotten, Active, TypeOK, RestoreTruncates
<1> QED BY <1>1, <1>2, <1>3, <1>4, <1>5, <1>6 DEF IInv

LEMMA ModelsChangeInv == ASSUME IInv, ModelsChange PROVE IInv'
<1>1. TypeOK'
  BY DEF IInv, TypeOK, ModelsChange
<1>2. Loops'
  BY DEF IInv, Loops, Loop, Stopping, Active, TypeOK, ModelsChange
<1>3. Progress'
  BY EnabledAreCameras, LifecycleAssumption DEF IInv, Progress, Settled, Wanted, Loop, Stopping, Active, Loops, TypeOK,
     ModelsChange
<1>4. PoolCountsCameras'
  BY DEF IInv, PoolCountsCameras, Active, TypeOK, ModelsChange
<1>5. CompleteReload'
  BY DEF IInv, CompleteReload, Active, Wanted, TypeOK, ModelsChange
<1>6. StoppedIsForgotten'
  BY DEF IInv, StoppedIsForgotten, Active, TypeOK, ModelsChange
<1> QED BY <1>1, <1>2, <1>3, <1>4, <1>5, <1>6 DEF IInv

\* Stopping a camera for new model or classes is RestartForClasses in another
\* loop; a new tuning leaves who runs which model as it is.
LEMMA UpdateCameraInv == ASSUME IInv, NEW c \in Cameras, UpdateCamera(c) PROVE IInv'
<1>1. CASE StopCamera(c)
  <2>0. /\ TypeOK /\ PoolCountsCameras /\ StopCamera(c) /\ c \in Active
        /\ reload.at = "cameras" /\ c \in reload.todo
    BY <1>1 DEF IInv, UpdateCamera
  <2>1. TypeOK' /\ PoolCountsCameras'
    BY <2>0, StopTypes, StopCounts
  <2>2. Loops'
    BY <2>0 DEF IInv, Loops, Loop, Stopping, Active, TypeOK, StopCamera
  <2>3. Progress'
    BY <2>0, EnabledAreCameras, LifecycleAssumption
    DEF IInv, Progress, Settled, Wanted, Loop, Stopping, Active, Loops, TypeOK, StopCamera
  <2>4. CompleteReload' /\ StoppedIsForgotten'
    BY <2>0 DEF IInv, CompleteReload, StoppedIsForgotten, Active, TypeOK, StopCamera
  <2> QED BY <2>1, <2>2, <2>3, <2>4 DEF IInv
<1>2. CASE /\ SameDetector(active[c], Wanted(c))
           /\ active' = [active EXCEPT ![c].tuning = loaded.cameras[c].tuning]
           /\ reload' = [reload EXCEPT !.todo = @ \ {c}]
           /\ UNCHANGED <<fileVars, onDisk, loaded, refs, healthVars>>
  <2>0. /\ TypeOK /\ PoolCountsCameras /\ c \in Active /\ c \in Enabled(loaded)
        /\ reload.at = "cameras" /\ c \in reload.todo /\ reload.state = Off
    BY <1>2 DEF IInv, UpdateCamera, Loops, Loop, Stopping, TypeOK
  <2>1. active[c] \in Thread /\ Wanted(c) \in Thread /\ active[c].model = Wanted(c).model
    BY <1>2, <2>0, ActiveAreThreads, WantedIsThread DEF SameDetector
  <2>2. active'[c] = Wanted(c)
    <3>1. Wanted(c).tuning = loaded.cameras[c].tuning
      <4>1. loaded \in Config
        BY <2>0, LifecycleAssumption DEF TypeOK
      <4>2. loaded.cameras[c] \in Section
        BY <2>0, <4>1 DEF Enabled, Config
      <4> QED BY <4>2 DEF Wanted, Resolve, Section
    <3>2. active'[c] = [active[c] EXCEPT !.tuning = loaded.cameras[c].tuning]
      BY <1>2, <2>0 DEF TypeOK
    <3> QED BY <1>2, <2>1, <3>1, <3>2 DEF SameDetector, Thread
  <2>3. active' = [active EXCEPT ![c] = Wanted(c)]
    BY <1>2, <2>0, <2>2 DEF TypeOK
  <2>4. Active' = Active
    BY <2>0, <2>1, <2>3, OffIsNoThread DEF Active, TypeOK
  <2>5. TypeOK'
    BY <1>2, <2>0, <2>1, <2>3 DEF TypeOK
  <2>6. Loops'
    BY <1>2, <2>0, <2>4 DEF IInv, Loops, Loop, Stopping, TypeOK
  <2>7. Progress'
    BY <1>2, <2>0, <2>2, <2>3, <2>4, EnabledAreCameras, LifecycleAssumption
    DEF IInv, Progress, Settled, Wanted, Loop, Stopping, Loops, TypeOK
  <2>8. PoolCountsCameras'
    <3>1. \A m \in Models : Using(m)' = Using(m)
      BY <2>0, <2>1, <2>3, <2>4 DEF Using, Active, TypeOK
    <3>2. reload'.state = Off /\ refs' = refs
      BY <1>2, <2>0 DEF TypeOK
    <3> QED BY <2>0, <3>1, <3>2, NobodyHeld, CountUsers
  <2>9. CompleteReload' /\ StoppedIsForgotten'
    BY <1>2, <2>0, <2>4 DEF IInv, CompleteReload, StoppedIsForgotten, TypeOK
  <2> QED BY <2>5, <2>6, <2>7, <2>8, <2>9 DEF IInv
<1> QED BY <1>1, <1>2 DEF UpdateCamera

-----------------------------------------------------------------------------
LEMMA InitInv == Init => IInv
<1> SUFFICES ASSUME Init PROVE IInv
  OBVIOUS
<1>1. TypeOK
  BY EnabledAreCameras DEF Init, TypeOK
<1>2. Active = {} /\ reload.state = Off
  BY DEF Init, Active
<1>3. Loops
  BY <1>2 DEF Init, Loops, Loop, Stopping
<1>4. Progress
  BY <1>2 DEF Init, Progress, Loop, Stopping
<1>5. PoolCountsCameras
  <2>1. \A m \in Models : Using(m) = {} /\ Held(m) = 0
    BY <1>2 DEF Using, Held
  <2> QED BY <2>1, FS_EmptySet, CountsAre DEF Init
<1>6. CompleteReload /\ StoppedIsForgotten
  BY <1>2 DEF Init, CompleteReload, StoppedIsForgotten
<1> QED BY <1>1, <1>3, <1>4, <1>5, <1>6 DEF IInv

LEMMA NextInv == IInv /\ [Next]_vars => IInv'
<1> SUFFICES ASSUME IInv, [Next]_vars PROVE IInv'
  OBVIOUS
<1>1. CASE Step
  <2>1. ASSUME NEW c \in Cameras,
               AddCamera(c) \/ RestartForClasses(c) \/ UpdateCamera(c) \/ UpdateRaises(c)
                            \/ RemoveCamera(c)
        PROVE  IInv'
    BY <2>1, AddCameraInv, RestartForClassesInv, UpdateCameraInv, UpdateRaisesInv, RemoveCameraInv
  <2> QED BY <1>1, <2>1, WatcherStartsInv, PollInv, LoadTornInv, LoadInv, ClassesDoneInv,
             CamerasDoneInv, ReloadDoneInv, JoinEndsInv, JoinTimesOutInv, ReleaseInv, RestartInv
          DEF Step
<1>2. CASE \E c \in Cameras : Report(c)
  BY <1>2, ReportInv
<1>3. CASE \E cfg \in Configs : Save(cfg)
  BY <1>3, SaveInv
<1>4. CASE RestoreTruncates
  BY <1>4, RestoreTruncatesInv
<1>5. CASE ModelsChange
  BY <1>5, ModelsChangeInv
<1>6. CASE UNCHANGED vars
  BY <1>6 DEF vars, IInv, TypeOK, Loops, Loop, Stopping, Progress, Settled, Wanted, Active,
              PoolCountsCameras, CompleteReload, StoppedIsForgotten
<1> QED BY <1>1, <1>2, <1>3, <1>4, <1>5, <1>6 DEF Next

\* The inductive invariant of start-up, stop and reload (main.py:540-822).
THEOREM InvariantHolds == Spec => []IInv
  BY InitInv, NextInv, PTL DEF Spec

\* The places of start-up and reload, the threads' settings and the counts keep
\* their types (main.py:540-822).
THEOREM TypeCorrect == Spec => []TypeOK
  BY InvariantHolds, PTL DEF IInv

\* The pool counts exactly the cameras that run a model, the one being stopped
\* included (model_pool.py:48-86, main.py:624-634).
THEOREM PoolCountsCamerasHolds == Spec => []PoolCountsCameras
  BY InvariantHolds, PTL DEF IInv

\* A reload that does not raise leaves the file's enabled cameras running as the
\* file says, but for those it could not start (main.py:702-822).
THEOREM CompleteReloadHolds == Spec => []CompleteReload
  BY InvariantHolds, PTL DEF IInv

\* No camera that is not running has a health entry, unless a thread of it
\* outlived its join (main.py:629-631, camera_health.py:191-194).
THEOREM StoppedIsForgottenHolds == Spec => []StoppedIsForgotten
  BY InvariantHolds, PTL DEF IInv

\* The cameras, the pool's counts and the health monitor agree after every start,
\* stop and reload: the conjunction the runs check (main.py:540-822).
THEOREM LifecycleHoldsAlways == Spec => []LifecycleHolds
<1>1. IInv => LifecycleHolds
  BY DEF IInv, LifecycleHolds
<1> QED BY <1>1, InvariantHolds, PTL

-----------------------------------------------------------------------------
(* The outage of a camera. *)

\* An outage counts from a failure that came after the debounce, a recovery that is being told from
\* frames that have not stopped coming for long enough to be read since.
OutageInv ==
    /\ HealthTypeOK
    /\ outageAlerts < 2 /\ (outageAlerts = 1 => alertSent)
    /\ offlineFor # Never => /\ onlineFor = Never
                             /\ sinceFrame \in {Never, Old} \/ sinceFrame > offlineFor + Debounce
    /\ alerts # "none" => collector.at = "publishing"
    /\ alerts = "camera_offline" => outageAlerts = 0 \/ sinceFrame \in {Never, Old}
    /\ alerts = "camera_recovered" => /\ ~outageAlerted
                                      /\ IF offlineFor = Never
                                         THEN onlineFor # Never /\ onlineFor >= Threshold
                                         ELSE reader.at = "pausing" /\ reader.left > 0

LEMMA HealthNumbers ==
    /\ Pause \in Nat /\ FirstDelay \in Nat /\ LastDelay \in Nat /\ LongAfter \in Nat /\ LongDelay \in Nat
    /\ Debounce \in Nat /\ Threshold \in Nat /\ Interval \in Nat /\ MaxRedisErrors \in Nat
    /\ FirstDelay <= LastDelay /\ Pause > 0 /\ Never = Threshold + Debounce + 2 /\ Old = Threshold + Debounce + 1
  BY HealthAssumption DEF Never, Old

LEMMA OutageStarts == HealthInit => OutageInv
<1> SUFFICES ASSUME HealthInit PROVE OutageInv
  OBVIOUS
<1>1. /\ reader \in [at : {"reading", "pausing", "reconnecting"}, left : Nat]
      /\ collector \in [at : {"waiting", "checking", "publishing"}, left : 0 .. Interval]
  BY HealthNumbers DEF HealthInit
<1>2. sinceFrame \in Ages /\ offlineFor \in Ages /\ onlineFor \in Ages /\ delay \in FirstDelay .. LastDelay
      /\ openFailures \in 0 .. LongAfter /\ redisErrors \in 0 .. MaxRedisErrors
  BY HealthNumbers DEF HealthInit, Ages
<1>3. HealthTypeOK
  <2>1. cameraUp \in BOOLEAN /\ capture \in BOOLEAN /\ alertSent \in BOOLEAN /\ outageAlerted \in BOOLEAN
    BY Zenon DEF HealthInit
  <2>2. alerts = "none" /\ outageAlerts = 0
    BY DEF HealthInit
  <2> QED BY <1>1, <1>2, <2>1, <2>2 DEF HealthTypeOK
<1>4. outageAlerts = 0 /\ offlineFor = Never /\ alerts = "none"
  BY DEF HealthInit
<1> QED BY <1>3, <1>4 DEF OutageInv

LEMMA FrameKeeps ==
    ASSUME OutageInv, RecordFrame, UNCHANGED collectorVars, reader.at # "pausing",
           reader' \in [at : {"reading", "pausing", "reconnecting"}, left : Nat],
           cameraUp' \in BOOLEAN, capture' \in BOOLEAN, delay' \in FirstDelay .. LastDelay, openFailures' \in 0 .. LongAfter
    PROVE  OutageInv'
<1>0. alertSent' \in BOOLEAN
  BY DEF OutageInv, HealthTypeOK, RecordFrame
<1>1. /\ {sinceFrame', offlineFor', onlineFor'} \subseteq Ages
      /\ sinceFrame' = 0 /\ offlineFor' = Never /\ outageAlerts' = 0
      /\ UNCHANGED <<outageAlerted, collector, alerts, redisErrors>>
      /\ onlineFor' = 0 \/ (offlineFor = Never /\ onlineFor' = onlineFor)
  BY HealthNumbers DEF OutageInv, HealthTypeOK, RecordFrame, collectorVars, Ages
<1>2. HealthTypeOK'
  BY <1>0, <1>1 DEF OutageInv, HealthTypeOK
<1>3. alerts = "camera_recovered" => ~outageAlerted /\ onlineFor' # Never /\ onlineFor' >= Threshold
  BY <1>1, HealthNumbers DEF OutageInv, RecordFrame
<1> QED BY <1>1, <1>2, <1>3 DEF OutageInv

LEMMA FailureKeeps ==
    ASSUME OutageInv, RecordFailure, UNCHANGED collectorVars,
           reader' = [at |-> "pausing", left |-> Pause],
           cameraUp' \in BOOLEAN, capture' \in BOOLEAN, delay' \in FirstDelay .. LastDelay, openFailures' \in 0 .. LongAfter
    PROVE  OutageInv'
<1>1. HealthTypeOK'
  BY HealthNumbers DEF OutageInv, HealthTypeOK, RecordFailure, collectorVars, Ages
<1>2. UNCHANGED <<sinceFrame, alertSent, outageAlerted, outageAlerts, collector, alerts>>
  BY DEF RecordFailure, collectorVars
<1>3. CASE offlineFor = Never /\ Debounced
  <2>1. offlineFor' = 0 /\ onlineFor' = Never /\ (sinceFrame = Never \/ sinceFrame > offlineFor' + Debounce)
    BY <1>3, HealthNumbers DEF RecordFailure, Debounced, OutageInv, HealthTypeOK, Ages
  <2> QED BY <1>1, <1>2, <2>1, HealthNumbers DEF OutageInv
<1>4. CASE ~(offlineFor = Never /\ Debounced)
  <2>1. UNCHANGED <<offlineFor, onlineFor>>
    BY <1>4 DEF RecordFailure
  <2> QED BY <1>1, <1>2, <2>1, HealthNumbers DEF OutageInv
<1> QED BY <1>3, <1>4

LEMMA AgesGrow ==
    ASSUME NEW age \in Ages
    PROVE  /\ Older(age) \in Ages /\ (Older(age) = Never <=> age = Never)
           /\ Older(age) = IF age < Old THEN age + 1 ELSE age
  BY HealthNumbers DEF Older, Ages

LEMMA OutageStep == OutageInv /\ [HealthNext]_outageVars => OutageInv'
<1> SUFFICES ASSUME OutageInv, [HealthNext]_outageVars PROVE OutageInv'
  OBVIOUS
<1>0. HealthTypeOK
  BY DEF OutageInv
<1>1. CASE Read
  <2>1. cameraUp' \in BOOLEAN /\ capture' \in BOOLEAN /\ delay' \in FirstDelay .. LastDelay
        /\ openFailures' \in 0 .. LongAfter /\ UNCHANGED collectorVars /\ reader.at = "reading"
    BY <1>0, <1>1 DEF HealthTypeOK, Read, environmentVars, collectorVars
  <2>2. CASE cameraUp
    BY <1>0, <1>1, <2>1, <2>2, FrameKeeps DEF HealthTypeOK, Read
  <2>3. CASE ~cameraUp
    BY <1>1, <2>1, <2>3, FailureKeeps DEF Read
  <2> QED BY <2>2, <2>3
<1>2. CASE Reconnect
  <2>1. /\ reader.at = "pausing" /\ reader.left = 0
        /\ reader' \in [at : {"reading", "pausing", "reconnecting"}, left : Nat]
    BY <1>0, <1>2, HealthNumbers DEF HealthTypeOK, Reconnect
  <2> QED BY <1>2, <2>1 DEF OutageInv, HealthTypeOK, Reconnect, environmentVars, entryVars, collectorVars
<1>3. CASE Open
  <2>1. cameraUp' \in BOOLEAN /\ UNCHANGED collectorVars /\ reader.at = "reconnecting"
    BY <1>0, <1>3 DEF HealthTypeOK, Open, environmentVars, collectorVars
  <2>2. CASE cameraUp
    <3>1. /\ delay' \in FirstDelay .. LastDelay /\ openFailures' \in 0 .. LongAfter /\ capture' \in BOOLEAN
          /\ reader' \in [at : {"reading", "pausing", "reconnecting"}, left : Nat]
          /\ UNCHANGED <<entryVars, outageAlerts>>
      BY <1>3, <2>2, HealthNumbers DEF Open
    <3> QED BY <2>1, <3>1 DEF OutageInv, HealthTypeOK, entryVars, collectorVars
  <2>3. CASE ~cameraUp
    <3>1. capture' \in BOOLEAN /\ delay' \in FirstDelay .. LastDelay /\ openFailures' \in 0 .. LongAfter
      BY <1>0, <1>3, <2>3, HealthNumbers DEF HealthTypeOK, Open
    <3> QED BY <1>3, <2>1, <2>3, <3>1, FailureKeeps DEF Open
  <2> QED BY <2>2, <2>3
<1>4. CASE WriteStats
  <2>1. redisErrors' \in 0 .. MaxRedisErrors /\ collector.at = "waiting"
        /\ collector' \in [at : {"waiting", "checking", "publishing"}, left : 0 .. Interval]
    BY <1>0, <1>4, HealthNumbers DEF HealthTypeOK, WriteStats, RedisError
  <2> QED BY <1>4, <2>1 DEF OutageInv, HealthTypeOK, WriteStats, environmentVars, streamVars, entryVars
<1>5. CASE AskForAlerts
  <2>1. /\ collector' = [at |-> "publishing", left |-> 0]
        /\ collector' \in [at : {"waiting", "checking", "publishing"}, left : 0 .. Interval]
        /\ UNCHANGED <<cameraUp, flaps, reader, capture, delay, openFailures, redisErrors, sinceFrame, offlineFor, onlineFor>>
    BY <1>5, HealthNumbers DEF AskForAlerts, CheckAlerts, environmentVars, streamVars
  <2>2. CASE OfflineDue
    <3>1. alerts' = "camera_offline" /\ alertSent' = TRUE /\ outageAlerted' = TRUE /\ outageAlerts' = outageAlerts + 1
          /\ offlineFor # Never /\ ~alertSent /\ offlineFor >= Threshold
      BY <1>5, <2>2 DEF AskForAlerts, CheckAlerts, OfflineDue, RecoveryDue
    <3>2. sinceFrame \in {Never, Old}
      <4>1. offlineFor \in Ages /\ sinceFrame \in Ages /\ offlineFor >= Threshold
            /\ (sinceFrame \in {Never, Old} \/ sinceFrame > offlineFor + Debounce)
        BY <3>1 DEF OutageInv, HealthTypeOK
      <4> QED BY <4>1, HealthNumbers DEF Ages
    <3> QED BY <2>1, <3>1, <3>2, HealthNumbers DEF OutageInv, HealthTypeOK
  <2>3. CASE ~OfflineDue /\ RecoveryDue
    <3>1. alerts' = "camera_recovered" /\ alertSent' = alertSent /\ outageAlerted' = FALSE /\ outageAlerts' = outageAlerts
          /\ offlineFor = Never /\ onlineFor # Never /\ onlineFor >= Threshold
      BY <1>0, <1>5, <2>3 DEF AskForAlerts, CheckAlerts, RecoveryDue, HealthTypeOK
    <3> QED BY <2>1, <3>1, HealthNumbers DEF OutageInv, HealthTypeOK
  <2>4. CASE ~OfflineDue /\ ~RecoveryDue
    <3>1. alerts' = "none" /\ alertSent' = alertSent /\ outageAlerted' = outageAlerted /\ outageAlerts' = outageAlerts
      BY <1>0, <1>5, <2>4 DEF AskForAlerts, CheckAlerts, HealthTypeOK
    <3> QED BY <2>1, <3>1, HealthNumbers DEF OutageInv, HealthTypeOK
  <2> QED BY <2>2, <2>3, <2>4
<1>6. CASE PublishAlert
  <2>1. redisErrors' \in 0 .. MaxRedisErrors
        /\ collector' \in [at : {"waiting", "checking", "publishing"}, left : 0 .. Interval]
    BY <1>0, <1>6, HealthNumbers DEF HealthTypeOK, PublishAlert, RedisError
  <2> QED BY <1>6, <2>1 DEF OutageInv, HealthTypeOK, PublishAlert, environmentVars, streamVars, entryVars
<1>7. CASE CameraFlaps
  <2>1. cameraUp' \in BOOLEAN /\ UNCHANGED <<streamVars, entryVars, outageAlerts, collectorVars>>
    BY <1>0, <1>7 DEF HealthTypeOK, CameraFlaps
  <2> QED BY <2>1 DEF OutageInv, HealthTypeOK, streamVars, entryVars, collectorVars
<1>8. CASE HealthTick
  <2>1. /\ collector.at = "waiting" /\ alerts = "none"
        /\ UNCHANGED <<cameraUp, capture, delay, openFailures, alertSent, outageAlerted, outageAlerts, alerts, redisErrors>>
        /\ sinceFrame' = Older(sinceFrame) /\ offlineFor' = Older(offlineFor) /\ onlineFor' = Older(onlineFor)
    BY <1>8 DEF OutageInv, HealthTick, environmentVars
  <2>2. reader' \in [at : {"reading", "pausing", "reconnecting"}, left : Nat]
        /\ collector' \in [at : {"waiting", "checking", "publishing"}, left : 0 .. Interval]
    BY <1>0, <1>8, HealthNumbers DEF HealthTypeOK, HealthTick
  <2>3. /\ {sinceFrame', offlineFor', onlineFor'} \subseteq Ages
        /\ (offlineFor' = Never <=> offlineFor = Never) /\ (onlineFor' = Never <=> onlineFor = Never)
        /\ sinceFrame' = (IF sinceFrame < Old THEN sinceFrame + 1 ELSE sinceFrame)
        /\ offlineFor' = (IF offlineFor < Old THEN offlineFor + 1 ELSE offlineFor)
    BY <1>0, <2>1, AgesGrow DEF HealthTypeOK
  <2>4. HealthTypeOK'
    BY <1>0, <2>1, <2>2, <2>3 DEF HealthTypeOK
  <2>5. offlineFor' # Never => onlineFor' = Never /\ (sinceFrame' \in {Never, Old} \/ sinceFrame' > offlineFor' + Debounce)
    BY <1>0, <2>3, HealthNumbers DEF OutageInv, HealthTypeOK, Ages
  <2> QED BY <2>1, <2>4, <2>5 DEF OutageInv
<1>9. CASE UNCHANGED outageVars
  BY <1>9 DEF outageVars, OutageInv, HealthTypeOK
<1> QED BY <1>1, <1>2, <1>3, <1>4, <1>5, <1>6, <1>7, <1>8, <1>9 DEF HealthNext, ReaderStep, CollectorStep

LEMMA OutageInvariant == HealthSpec => []OutageInv
<1> QED BY OutageStarts, OutageStep, PTL DEF HealthSpec

\* HealthHolds
THEOREM HealthIsCorrect == HealthSpec => []HealthHolds
<1>1. OutageInv => HealthHolds
  BY HealthNumbers DEF OutageInv, HealthHolds, HealthTypeOK, Ages, AlertsAreEarned, OutageIsCounted
<1> QED BY <1>1, OutageInvariant, PTL

-----------------------------------------------------------------------------
(* The arm schedule: boundaries in order.                                  *)

\* Sets of boundaries.
Moments == [at : Int, armed : BOOLEAN]

\* The order of the boundaries is strict and total.
LEMMA Comparable ==
    ASSUME NEW x \in Moments, NEW y \in Moments
    PROVE  /\ x = y \/ Earlier(x, y) \/ Earlier(y, x)
           /\ ~(Earlier(x, y) /\ Earlier(y, x)) /\ ~Earlier(x, x)
<1>1. x = [at |-> x.at, armed |-> x.armed] /\ y = [at |-> y.at, armed |-> y.armed]
  BY DEF Moments
<1>2. x.at \in Int /\ y.at \in Int /\ x.armed \in BOOLEAN /\ y.armed \in BOOLEAN
  BY DEF Moments
<1>3. x.at = y.at /\ x.armed = y.armed => x = y
  BY <1>1
<1> QED BY <1>2, <1>3 DEF Earlier

\* ... and transitive.
LEMMA EarlierGoesOn ==
    ASSUME NEW x \in Moments, NEW y \in Moments, NEW z \in Moments, Earlier(x, y), Earlier(y, z)
    PROVE  Earlier(x, z)
BY DEF Moments, Earlier

\* z is not before any other.
IsLast(z, S) == z \in S /\ \A x \in S \ {z} : Earlier(x, z)

\* A finite set of boundaries has a last one.
LEMMA LastExists ==
    ASSUME NEW S, IsFiniteSet(S), S \subseteq Moments, S # {}
    PROVE  \E z : IsLast(z, S)
<1>0. \A s \in SUBSET S : IsFiniteSet(s) /\ Cardinality(s) \in Nat /\ Cardinality(s) <= Cardinality(S)
  BY FS_Subset, FS_CardinalityType
<1> DEFINE N == {n \in Nat : \A s \in Small(S, n) : s # {} => \E z : IsLast(z, s)}
<1>1. 0 \in N
  <2>1. \A s \in Small(S, 0) : s = {}
    BY <1>0, FS_EmptySet DEF Small
  <2> QED BY <2>1
<1>2. ASSUME NEW n \in Nat, n \in N PROVE n + 1 \in N
  <2> SUFFICES ASSUME NEW s \in Small(S, n + 1), s # {} PROVE \E z : IsLast(z, s)
    OBVIOUS
  <2>1. PICK x : x \in s
    OBVIOUS
  <2>2. s \in SUBSET S /\ Cardinality(s) <= n + 1 /\ IsFiniteSet(s) /\ x \in Moments
    BY <1>0, <2>1 DEF Small
  <2>3. s \ {x} \in Small(S, n)
    <3>1. Cardinality(s \ {x}) = Cardinality(s) - 1 /\ Cardinality(s) \in Nat
      BY <2>1, <2>2, WithoutOne
    <3> QED BY <2>2, <3>1 DEF Small
  <2>4. CASE s \ {x} = {}
    <3>1. IsLast(x, s)
      BY <2>1, <2>4 DEF IsLast
    <3> QED BY <3>1
  <2>5. CASE s \ {x} # {}
    <3>1. PICK m : IsLast(m, s \ {x})
      BY <1>2, <2>3, <2>5
    <3>2. m \in s /\ m \in Moments /\ m # x /\ \A y \in s \ {x, m} : Earlier(y, m)
      BY <2>2, <3>1 DEF IsLast
    <3>3. CASE Earlier(x, m)
      <4>1. IsLast(m, s)
        BY <3>2, <3>3 DEF IsLast
      <4> QED BY <4>1
    <3>4. CASE Earlier(m, x)
      <4>1. \A y \in s \ {x} : Earlier(y, x)
        BY <2>2, <3>2, <3>4, EarlierGoesOn
      <4>2. IsLast(x, s)
        BY <2>1, <4>1 DEF IsLast
      <4> QED BY <4>2
    <3> QED BY <2>2, <3>2, <3>3, <3>4, Comparable
  <2> QED BY <2>4, <2>5
<1>3. Cardinality(S) \in N
  <2> HIDE DEF N
  <2> QED BY <1>0, <1>1, <1>2, NatSetInduction
<1>4. S \in Small(S, Cardinality(S))
  BY <1>0 DEF Small
<1> QED BY <1>3, <1>4

\* s lists S in its order.
Lists(s, S, n) ==
    s \in [1 .. n -> S] /\ \A i, j \in 1 .. n : i < j => Earlier(s[i], s[j])

\* ... so it can be listed: the sequence InOrder chooses exists.
LEMMA ListExists ==
    ASSUME NEW S, IsFiniteSet(S), S \subseteq Moments
    PROVE  \E s : Lists(s, S, Cardinality(S))
<1>0. \A s \in SUBSET S : IsFiniteSet(s) /\ Cardinality(s) \in Nat /\ Cardinality(s) <= Cardinality(S)
  BY FS_Subset, FS_CardinalityType
<1> DEFINE N == {n \in Nat : \A u \in Small(S, n) : \E s : Lists(s, u, Cardinality(u))}
<1>1. 0 \in N
  <2>1. ASSUME NEW u \in Small(S, 0) PROVE \E s : Lists(s, u, Cardinality(u))
    <3>1. u = {} /\ Cardinality(u) = 0
      BY <1>0, FS_EmptySet DEF Small
    <3>2. Lists([i \in 1 .. 0 |-> 0], u, Cardinality(u))
      BY <3>1 DEF Lists
    <3> QED BY <3>2
  <2> QED BY <2>1
<1>2. ASSUME NEW n \in Nat, n \in N PROVE n + 1 \in N
  <2> SUFFICES ASSUME NEW u \in Small(S, n + 1) PROVE \E s : Lists(s, u, Cardinality(u))
    OBVIOUS
  <2>1. u \in SUBSET S /\ Cardinality(u) <= n + 1 /\ IsFiniteSet(u) /\ u \subseteq Moments
    BY <1>0 DEF Small
  <2>2. CASE u = {}
    <3>1. Cardinality(u) = 0
      BY <2>2, FS_EmptySet
    <3>2. Lists([i \in 1 .. 0 |-> 0], u, Cardinality(u))
      BY <2>2, <3>1 DEF Lists
    <3> QED BY <3>2
  <2>3. CASE u # {}
    <3>1. PICK z : IsLast(z, u)
      BY <2>1, <2>3, LastExists
    <3> DEFINE k == Cardinality(u)
               v == u \ {z}
    <3>2. z \in u /\ \A x \in v : Earlier(x, z)
      BY <3>1 DEF IsLast
    <3>3. Cardinality(v) = k - 1 /\ k \in Nat /\ k - 1 \in Nat
      BY <2>1, <3>2, WithoutOne
    <3>4. v \in Small(S, n)
      BY <2>1, <3>3 DEF Small
    <3>5. PICK s : Lists(s, v, Cardinality(v))
      BY <1>2, <3>4
    <3>6. s \in [1 .. k - 1 -> v] /\ \A i, j \in 1 .. k - 1 : i < j => Earlier(s[i], s[j])
      BY <3>3, <3>5 DEF Lists
    <3> HIDE DEF k
    <3> DEFINE h == [i \in 1 .. k |-> IF i = k THEN z ELSE s[i]]
    <3>7. \A i \in 1 .. k : (i = k => h[i] = z) /\ (i # k => i \in 1 .. k - 1 /\ h[i] = s[i] /\ h[i] \in v)
      BY <3>3, <3>6
    <3>8. h \in [1 .. k -> u]
      BY <3>2, <3>7
    <3> HIDE DEF h, v
    <3>9. \A i, j \in 1 .. k : i < j => Earlier(h[i], h[j])
      <4> SUFFICES ASSUME NEW i \in 1 .. k, NEW j \in 1 .. k, i < j PROVE Earlier(h[i], h[j])
        OBVIOUS
      <4>1. i # k
        BY <3>3
      <4>2. CASE j = k
        BY <3>2, <3>7, <4>1, <4>2
      <4>3. CASE j # k
        <5>1. h[i] = s[i] /\ h[j] = s[j] /\ i \in 1 .. k - 1 /\ j \in 1 .. k - 1
          BY <3>7, <4>1, <4>3
        <5> QED BY <3>6, <5>1
      <4> QED BY <4>2, <4>3
    <3>10. Lists(h, u, k)
      BY <3>8, <3>9 DEF Lists
    <3> QED BY <3>10 DEF k
  <2> QED BY <2>2, <2>3
<1>3. Cardinality(S) \in N
  <2> HIDE DEF N
  <2> QED BY <1>0, <1>1, <1>2, NatSetInduction
<1>4. S \in Small(S, Cardinality(S))
  BY <1>0 DEF Small
<1> QED BY <1>3, <1>4

\* A set of boundaries between two instants is finite.
LEMMA BoundedIsFinite ==
    ASSUME NEW S, S \subseteq Moments, NEW start \in Int, NEW end \in Int,
           \A x \in S : start < x.at /\ x.at <= end
    PROVE  IsFiniteSet(S)
<1> DEFINE T == start + 1 .. end
           Part(a) == {x \in S : x.armed = a}
<1>1. IsFiniteSet(T)
  BY FS_Interval
<1>2. ASSUME NEW a \in BOOLEAN PROVE IsFiniteSet(Part(a))
  <2> DEFINE f == [x \in Part(a) |-> x.at]
  <2>1. f \in [Part(a) -> T]
    BY DEF Moments
  <2>2. \A x, y \in Part(a) : f[x] = f[y] => x = y
    <3> SUFFICES ASSUME NEW x \in Part(a), NEW y \in Part(a), f[x] = f[y] PROVE x = y
      OBVIOUS
    <3>1. x \in Moments /\ y \in Moments /\ x.at = y.at /\ x.armed = y.armed
      OBVIOUS
    <3>2. x = [at |-> x.at, armed |-> x.armed] /\ y = [at |-> y.at, armed |-> y.armed]
      BY <3>1 DEF Moments
    <3> QED BY <3>1, <3>2
  <2> HIDE DEF f, T
  <2>3. f \in Injection(Part(a), T)
    BY <2>1, <2>2 DEF Injection, IsInjective
  <2> QED BY <1>1, <2>3, FS_Injection
<1>3. S = Part(TRUE) \cup Part(FALSE)
  BY DEF Moments
<1> HIDE DEF Part
<1>4. IsFiniteSet(Part(TRUE) \cup Part(FALSE))
  BY <1>2, FS_Union
<1> QED BY <1>3, <1>4

IsFirst(z, S) == z \in S /\ \A x \in S \ {z} : Earlier(z, x)

\* What a list of the boundaries says of the set: its first and its last.
Ordered(q, S) ==
    /\ q \in Seq(S) /\ (q = <<>> <=> S = {}) /\ \A i \in DOMAIN q : q[i] \in S
    /\ S # {} => IsFirst(Head(q), S) /\ IsLast(Last(q), S)

\* InOrder lists a finite set of boundaries.
LEMMA InOrderIs ==
    ASSUME NEW S, IsFiniteSet(S), S \subseteq Moments
    PROVE  Ordered(InOrder(S), S)
<1> DEFINE n == Cardinality(S)
           q == InOrder(S)
<1>0. n \in Nat /\ (n = 0 <=> S = {})
  BY FS_CardinalityType, FS_EmptySet
<1>1. \E s : Lists(s, S, n)
  BY ListExists
<1>2. q \in [1 .. n -> S] /\ \A i, j \in 1 .. n : i < j => Earlier(q[i], q[j])
  BY <1>1 DEF InOrder, Lists
<1> HIDE DEF n, q
<1>3. q \in Seq(S) /\ Len(q) = n /\ DOMAIN q = 1 .. n
  BY <1>0, <1>2
<1>4. \A i \in DOMAIN q : q[i] \in S
  BY <1>2, <1>3
<1>5. q = <<>> <=> S = {}
  BY <1>0, <1>3, EmptySeq
<1>6. \A x \in S : \E i \in 1 .. n : q[i] = x
  <2> DEFINE D == 1 .. n
  <2>1. \A i, j \in D : q[i] = q[j] => i = j
    <3> SUFFICES ASSUME NEW i \in D, NEW j \in D, q[i] = q[j], i < j PROVE FALSE
      BY <1>0
    <3>1. Earlier(q[i], q[i]) /\ q[i] \in Moments
      BY <1>2
    <3> QED BY <3>1, Comparable
  <2>2. Cardinality(D) = n
    BY <1>0, FS_Interval
  <2> HIDE DEF D
  <2>3. q \in Injection(D, S)
    BY <1>2, <2>1 DEF Injection, IsInjective, D
  <2>4. q \in Surjection(D, S)
    BY <2>2, <2>3, FS_Injection DEF n
  <2> QED BY <2>4 DEF Surjection, D
<1>7. ASSUME S # {} PROVE IsFirst(Head(q), S) /\ IsLast(Last(q), S)
  <2>1. n >= 1 /\ Head(q) = q[1] /\ Last(q) = q[n] /\ 1 \in 1 .. n /\ n \in 1 .. n
    BY <1>0, <1>3, <1>5, <1>7 DEF Last
  <2>2. q[1] \in S /\ q[n] \in S
    BY <1>2, <2>1
  <2>3. ASSUME NEW x \in S, x # q[1] PROVE Earlier(q[1], x)
    <3>1. PICK i \in 1 .. n : q[i] = x
      BY <1>6
    <3>2. 1 < i
      BY <2>3, <3>1, <1>0
    <3> QED BY <1>2, <2>1, <3>1, <3>2
  <2>4. ASSUME NEW x \in S, x # q[n] PROVE Earlier(x, q[n])
    <3>1. PICK i \in 1 .. n : q[i] = x
      BY <1>6
    <3>2. i < n
      BY <2>4, <3>1, <1>0
    <3> QED BY <1>2, <2>1, <3>1, <3>2
  <2> QED BY <2>1, <2>2, <2>3, <2>4 DEF IsFirst, IsLast
<1> QED BY <1>3, <1>4, <1>5, <1>7 DEF Ordered, q
-----------------------------------------------------------------------------
\* Days and what is left of them.
LEMMA DayDivides ==
    ASSUME NEW x \in Int
    PROVE  /\ x \div Day \in Int /\ x % Day \in 0 .. Day - 1
           /\ x = (x \div Day) * Day + (x % Day)
<1> USE ScheduleAssumption
<1> DEFINE q == x \div Day
           r == x - q * Day
<1>1. q \in Int /\ Day * q <= x /\ x < Day * q + Day
  OBVIOUS
<1>2. q * Day = Day * q
  BY <1>1
<1>3. r \in 0 .. Day - 1 /\ x = q * Day + r
  BY <1>1, <1>2
<1>4. x % Day = r
  <2> HIDE DEF r, q
  <2> QED BY <1>1, <1>3
<1> QED BY <1>1, <1>3, <1>4

\* The date and the time of day of an instant that is given by them.
LEMMA DayIs ==
    ASSUME NEW q \in Int, NEW r \in 0 .. Day - 1
    PROVE  (q * Day + r) \div Day = q /\ (q * Day + r) % Day = r
<1> DEFINE x == q * Day + r
<1>1. q * Day \in Int /\ x \in Int /\ x = q * Day + r
  BY ScheduleAssumption
<1> HIDE DEF x
<1>2. x \div Day = q /\ x % Day = r
  BY <1>1, ScheduleAssumption
<1> QED BY <1>2 DEF x

\* Later dates begin later.
LEMMA DaysAreOrdered ==
    ASSUME NEW p \in Int, NEW q \in Int
    PROVE  /\ p <= q => p * Day <= q * Day
           /\ p * Day < (q + 1) * Day => p <= q
           /\ (q + 1) * Day = q * Day + Day /\ q * Day \in Int
BY ScheduleAssumption

\* How long before t the time of day x was last.
Age(t, x) == (t - x) % Day

\* Whole days lie between what is so long ago and any other such instant, and none of
\* them is later.
LEMMA AgeIs ==
    ASSUME NEW t \in Int, NEW x \in Int
    PROVE  /\ Age(t, x) \in 0 .. Day - 1 /\ Age(t, x) \in Int
           /\ \E q \in Int : t - Age(t, x) = q * Day + x
           /\ \A d \in Int : d * Day + x <= t => d * Day + x <= t - Age(t, x)
<1> USE ScheduleAssumption
<1> DEFINE q == (t - x) \div Day
           r == (t - x) % Day
<1>1. q \in Int /\ r \in 0 .. Day - 1 /\ t - x = q * Day + r
  BY DayDivides
<1> HIDE DEF q, r
<1>2. q * Day \in Int /\ (q + 1) * Day = q * Day + Day
  BY <1>1, DaysAreOrdered
<1>3. t - r = q * Day + x
  BY <1>1, <1>2
<1>4. ASSUME NEW d \in Int, d * Day + x <= t PROVE d * Day + x <= t - r
  <2>1. d * Day \in Int
    BY DaysAreOrdered
  <2>2. d * Day < (q + 1) * Day
    BY <1>1, <1>2, <1>4, <2>1
  <2>3. d * Day <= q * Day
    BY <1>1, <2>2, DaysAreOrdered
  <2> QED BY <1>1, <1>2, <1>3, <2>1, <2>3
<1> QED BY <1>1, <1>3, <1>4 DEF Age, r

\* An instant at that time of day less than a day ago is the last one.
LEMMA AgeFrom ==
    ASSUME NEW t \in Int, NEW x \in Int, NEW q \in Int, t - (q * Day + x) \in 0 .. Day - 1
    PROVE  Age(t, x) = t - (q * Day + x)
<1>1. q * Day \in Int
  BY DaysAreOrdered
<1>2. t - x = q * Day + (t - (q * Day + x))
  BY <1>1
<1> QED BY <1>2, DayIs DEF Age

\* A day earlier it was as long ago.
LEMMA AgeRepeats ==
    ASSUME NEW t \in Int, NEW x \in Int
    PROVE  Age(t - Day, x) = Age(t, x)
<1> USE ScheduleAssumption
<1>1. PICK q \in Int : t - Age(t, x) = q * Day + x
  BY AgeIs
<1>2. Age(t, x) \in 0 .. Day - 1
  BY AgeIs
<1>3. (q - 1) * Day = q * Day - Day /\ q * Day \in Int /\ q - 1 \in Int
  BY DaysAreOrdered
<1>4. (t - Day) - ((q - 1) * Day + x) = Age(t, x)
  BY <1>1, <1>2, <1>3
<1>5. t - Day \in Int
  OBVIOUS
<1> QED BY <1>2, <1>3, <1>4, <1>5, AgeFrom, ZenonT(30)

\* Since then it has come no nearer but by the time that passed.
LEMMA AgePasses ==
    ASSUME NEW s \in Int, NEW t \in Int, NEW x \in Int, s <= t, t - Age(t, x) <= s
    PROVE  Age(s, x) = Age(t, x) - (t - s)
<1> USE ScheduleAssumption
<1>1. PICK q \in Int : t - Age(t, x) = q * Day + x
  BY AgeIs
<1>2. Age(t, x) \in 0 .. Day - 1
  BY AgeIs
<1>3. q * Day \in Int
  BY DaysAreOrdered
<1>4. s - (q * Day + x) \in 0 .. Day - 1 /\ s - (q * Day + x) = Age(t, x) - (t - s)
  BY <1>1, <1>2, <1>3
<1> QED BY <1>4, AgeFrom
-----------------------------------------------------------------------------
\* The schedule's times, and everything it has between two instants.
Opening == times.arm + times.west
Closing == times.disarm + times.west
TimeOf(armed) == IF armed THEN Opening ELSE Closing
Span(start, end) ==
    {b \in Moments : /\ \E d \in Int : b.at = d * Day + TimeOf(b.armed)
                     /\ start < b.at /\ b.at <= end}
\* The system is to be armed: it was armed after it was disarmed.
InWindow(t) == Age(t, Opening) < Age(t, Closing)

\* Times are instants of the first day, as long as local and UTC dates agree.
LEMMA TimesAre ==
    ASSUME times \in Schedules
    PROVE  /\ Opening \in Int /\ Closing \in Int /\ \A armed \in BOOLEAN : TimeOf(armed) \in Int
           /\ SameDate => Opening \in 0 .. Day - 1 /\ Closing \in 0 .. Day - 1
<1>1. times.arm \in Int /\ times.disarm \in Int /\ times.west \in Int
  <2>1. times \in [arm : 0 .. Day - 1, disarm : 0 .. Day - 1, west : Int]
    BY ScheduleAssumption
  <2> QED BY <2>1, ScheduleAssumption
<1>2. Opening \in Int /\ Closing \in Int
  BY <1>1 DEF Opening, Closing
<1>3. ASSUME SameDate PROVE Opening \in 0 .. Day - 1 /\ Closing \in 0 .. Day - 1
  <2>1. 0 * Day + times.arm + times.west = Opening /\ 0 * Day + times.disarm + times.west = Closing
    BY <1>1, ScheduleAssumption DEF Opening, Closing
  <2>2. /\ [at |-> Opening, armed |-> TRUE] \in Boundaries(0)
        /\ [at |-> Closing, armed |-> FALSE] \in Boundaries(0)
    BY <2>1 DEF Boundaries
  <2> QED BY <1>3, <2>2 DEF SameDate
<1> QED BY <1>2, <1>3 DEF TimeOf

\* A date's boundaries, told apart by what they switch to.
LEMMA BoundariesAre ==
    ASSUME times \in Schedules, NEW d \in Int
    PROVE  Boundaries(d) = {b \in Moments : b.at = d * Day + TimeOf(b.armed)}
<1>0. times.arm \in Int /\ times.disarm \in Int /\ times.west \in Int /\ d * Day \in Int
  <2>1. times \in [arm : 0 .. Day - 1, disarm : 0 .. Day - 1, west : Int]
    BY ScheduleAssumption
  <2> QED BY <2>1, ScheduleAssumption, DaysAreOrdered
<1>1. /\ d * Day + times.arm + times.west = d * Day + Opening
      /\ d * Day + times.disarm + times.west = d * Day + Closing
      /\ d * Day + Opening \in Int /\ d * Day + Closing \in Int
  BY <1>0 DEF Opening, Closing
<1>2. Boundaries(d) = {[at |-> d * Day + Opening, armed |-> TRUE], [at |-> d * Day + Closing, armed |-> FALSE]}
  BY <1>1 DEF Boundaries
<1>3. ASSUME NEW b \in Moments, b.at = d * Day + TimeOf(b.armed) PROVE b \in Boundaries(d)
  <2>1. b = [at |-> b.at, armed |-> b.armed] /\ b.armed \in BOOLEAN
    BY DEF Moments
  <2>2. CASE b.armed
    <3>1. b.armed = TRUE /\ b.at = d * Day + Opening
      BY <1>3, <2>1, <2>2 DEF TimeOf
    <3> QED BY <1>2, <2>1, <3>1
  <2>3. CASE ~b.armed
    <3>1. b.armed = FALSE /\ b.at = d * Day + Closing
      BY <1>3, <2>1, <2>3 DEF TimeOf
    <3> QED BY <1>2, <2>1, <3>1
  <2> QED BY <2>2, <2>3
<1>4. ASSUME NEW b \in Boundaries(d) PROVE b \in Moments /\ b.at = d * Day + TimeOf(b.armed)
  <2>1. CASE b = [at |-> d * Day + Opening, armed |-> TRUE]
    BY <1>1, <2>1 DEF Moments, TimeOf
  <2>2. CASE b = [at |-> d * Day + Closing, armed |-> FALSE]
    BY <1>1, <2>2 DEF Moments, TimeOf
  <2> QED BY <1>2, <2>1, <2>2
<1> QED BY <1>3, <1>4

\* What is looked for among some dates.
Found(dates, start, end) ==
    {b \in UNION {Boundaries(d) : d \in dates} : start < b.at /\ b.at <= end}

\* Looking at the dates the interval has in UTC, or at more, finds all of it.
LEMMA AllIsFound ==
    ASSUME times \in Schedules, SameDate, NEW start \in Int, NEW end \in Int, NEW dates \in SUBSET Int,
           start \div Day .. end \div Day \subseteq dates
    PROVE  Found(dates, start, end) = Span(start, end)
<1> USE ScheduleAssumption
<1>1. ASSUME NEW b \in Found(dates, start, end) PROVE b \in Span(start, end)
  <2>1. PICK d \in dates : b \in Boundaries(d)
    BY DEF Found
  <2>2. b \in Moments /\ b.at = d * Day + TimeOf(b.armed)
    BY <2>1, BoundariesAre
  <2>3. start < b.at /\ b.at <= end
    BY DEF Found
  <2> QED BY <2>1, <2>2, <2>3 DEF Span
<1>2. ASSUME NEW b \in Span(start, end) PROVE b \in Found(dates, start, end)
  <2>1. PICK d \in Int : b.at = d * Day + TimeOf(b.armed)
    BY DEF Span
  <2>2. b \in Moments /\ start < b.at /\ b.at <= end
    BY DEF Span
  <2>3. TimeOf(b.armed) \in 0 .. Day - 1
    BY TimesAre DEF TimeOf
  <2>4. start \div Day <= d /\ d <= end \div Day
    <3>1. /\ start = (start \div Day) * Day + (start % Day) /\ start \div Day \in Int /\ start % Day \in 0 .. Day - 1
          /\ end = (end \div Day) * Day + (end % Day) /\ end \div Day \in Int /\ end % Day \in 0 .. Day - 1
      BY DayDivides
    <3> DEFINE p == start \div Day
               q == end \div Day
    <3>2. /\ p * Day \in Int /\ q * Day \in Int /\ d * Day \in Int
          /\ (d + 1) * Day = d * Day + Day /\ (q + 1) * Day = q * Day + Day
      BY <3>1, DaysAreOrdered
    <3>3. p * Day < (d + 1) * Day
      BY <2>1, <2>2, <2>3, <3>1, <3>2
    <3>4. d * Day < (q + 1) * Day
      BY <2>1, <2>2, <2>3, <3>1, <3>2
    <3> QED BY <3>1, <3>3, <3>4, DaysAreOrdered
  <2>5. d \in dates
    <3>1. start \div Day \in Int /\ end \div Day \in Int
      BY DayDivides
    <3> QED BY <2>4, <3>1
  <2>6. b \in Boundaries(d)
    BY <2>1, <2>2, BoundariesAre
  <2> QED BY <2>2, <2>5, <2>6 DEF Found
<1> QED BY <1>1, <1>2

\* What there is between two instants is finite.
LEMMA SpanIsFinite ==
    ASSUME NEW start \in Int, NEW end \in Int
    PROVE  Span(start, end) \subseteq Moments /\ IsFiniteSet(Span(start, end))
<1>1. Span(start, end) \subseteq Moments /\ \A b \in Span(start, end) : start < b.at /\ b.at <= end
  BY DEF Span
<1> QED BY <1>1, BoundedIsFinite

\* So both sequences of the code and of the properties list what there is.
LEMMA TransitionsAre ==
    ASSUME times \in Schedules, SameDate, NEW start \in Int, NEW end \in Int
    PROVE  /\ Ordered(TransitionsBetween(start, end), Span(start, end))
           /\ AllTransitions(start, end) = TransitionsBetween(start, end)
<1>0. start \div Day \in Int /\ end \div Day \in Int
  BY DayDivides
<1>1. Found(start \div Day .. end \div Day, start, end) = Span(start, end)
  BY <1>0, AllIsFound
<1>2. Found(start \div Day - 2 .. end \div Day + 2, start, end) = Span(start, end)
  <2> DEFINE dates == start \div Day - 2 .. end \div Day + 2
  <2>1. start \div Day .. end \div Day \subseteq dates /\ dates \in SUBSET Int
    BY <1>0
  <2> HIDE DEF dates
  <2>2. Found(dates, start, end) = Span(start, end)
    BY <2>1, AllIsFound
  <2> QED BY <2>2 DEF dates
<1>3. /\ TransitionsBetween(start, end) = InOrder(Span(start, end))
      /\ AllTransitions(start, end) = InOrder(Span(start, end))
  BY <1>1, <1>2 DEF TransitionsBetween, AllTransitions, Within, Found
<1> QED BY <1>3, SpanIsFinite, InOrderIs

\* The last of either kind is within reach, if it came after the start.
LEMMA LastOfKind ==
    ASSUME times \in Schedules, NEW start \in Int, NEW end \in Int, NEW armed \in BOOLEAN
    PROVE  /\ Age(end, TimeOf(armed)) \in 0 .. Day - 1
           /\ start < end - Age(end, TimeOf(armed))
                 => [at |-> end - Age(end, TimeOf(armed)), armed |-> armed] \in Span(start, end)
           /\ \A b \in Span(start, end) : b.armed = armed => b.at <= end - Age(end, TimeOf(armed))
<1> DEFINE x == TimeOf(armed)
           t == end - Age(end, x)
<1>0. x \in Int
  BY TimesAre
<1>1. /\ Age(end, x) \in 0 .. Day - 1
      /\ \E q \in Int : t = q * Day + x
      /\ \A d \in Int : d * Day + x <= end => d * Day + x <= t
  <2> HIDE DEF x
  <2> QED BY <1>0, AgeIs
<1> HIDE DEF x
<1>2. t \in Int /\ t <= end
  BY <1>0, <1>1, ScheduleAssumption
<1> HIDE DEF t
<1>3. ASSUME start < t PROVE [at |-> t, armed |-> armed] \in Span(start, end)
  BY <1>1, <1>2, <1>3 DEF Span, Moments, x
<1>4. ASSUME NEW b \in Span(start, end), b.armed = armed PROVE b.at <= t
  BY <1>1, <1>4 DEF Span, x
<1> QED BY <1>1, <1>3, <1>4 DEF x, t

\* The last boundary of an interval says what is to be at its end.
LEMMA LatestTells ==
    ASSUME times \in Schedules, NEW start \in Int, NEW end \in Int, NEW z, IsLast(z, Span(start, end))
    PROVE  z.armed <=> InWindow(end)
<1> DEFINE a == Age(end, Opening)
           c == Age(end, Closing)
<1>0. Opening = TimeOf(TRUE) /\ Closing = TimeOf(FALSE)
  BY DEF TimeOf
<1>1. z \in Span(start, end) /\ z \in Moments /\ z.armed \in BOOLEAN /\ z.at \in Int /\ start < z.at
  BY DEF IsLast, Span, Moments
<1>2. /\ a \in 0 .. Day - 1 /\ c \in 0 .. Day - 1
      /\ start < end - a => [at |-> end - a, armed |-> TRUE] \in Span(start, end)
      /\ start < end - c => [at |-> end - c, armed |-> FALSE] \in Span(start, end)
      /\ z.armed => z.at <= end - a
      /\ ~z.armed => z.at <= end - c
  BY <1>0, <1>1, LastOfKind
<1> HIDE DEF a, c
<1>3. CASE z.armed = TRUE
  <2>1. ~(a >= c)
    <3> SUFFICES ASSUME a >= c PROVE FALSE
      OBVIOUS
    <3>1. start < end - c /\ z.at <= end - c
      BY <1>1, <1>2, <1>3, ScheduleAssumption
    <3> DEFINE y == [at |-> end - c, armed |-> FALSE]
    <3>2. y \in Span(start, end) /\ y # z /\ y.at = end - c /\ y.armed = FALSE
      BY <1>2, <1>3, <3>1
    <3> HIDE DEF y
    <3>3. Earlier(y, z)
      BY <3>2 DEF IsLast
    <3> QED BY <1>1, <1>2, <3>1, <3>2, <3>3, ScheduleAssumption DEF Earlier
  <2>2. a < c
    BY <1>2, <2>1, ScheduleAssumption
  <2> QED BY <1>3, <2>2 DEF InWindow, a, c
<1>4. CASE z.armed = FALSE
  <2>1. ~(a < c)
    <3> SUFFICES ASSUME a < c PROVE FALSE
      OBVIOUS
    <3>1. start < end - a /\ z.at < end - a
      BY <1>1, <1>2, <1>4, ScheduleAssumption
    <3> DEFINE y == [at |-> end - a, armed |-> TRUE]
    <3>2. y \in Span(start, end) /\ y # z /\ y.at = end - a /\ y.armed = TRUE
      BY <1>2, <1>4, <3>1
    <3> HIDE DEF y
    <3>3. Earlier(y, z)
      BY <3>2 DEF IsLast
    <3> QED BY <1>1, <1>2, <3>1, <3>2, <3>3, ScheduleAssumption DEF Earlier
  <2> QED BY <1>4, <2>1 DEF InWindow, a, c
<1> QED BY <1>1, <1>3, <1>4

\* Where there is no boundary, nothing changes.
LEMMA NothingChanges ==
    ASSUME times \in Schedules, NEW start \in Int, NEW end \in Int, start <= end, Span(start, end) = {}
    PROVE  InWindow(start) <=> InWindow(end)
<1>0. Opening = TimeOf(TRUE) /\ Closing = TimeOf(FALSE) /\ Opening \in Int /\ Closing \in Int
  BY TimesAre DEF TimeOf
<1>1. ASSUME NEW armed \in BOOLEAN
      PROVE  /\ Age(start, TimeOf(armed)) = Age(end, TimeOf(armed)) - (end - start)
             /\ Age(end, TimeOf(armed)) \in Int
  <2>1. Age(end, TimeOf(armed)) \in 0 .. Day - 1 /\ ~(start < end - Age(end, TimeOf(armed)))
    BY LastOfKind
  <2>2. end - Age(end, TimeOf(armed)) <= start
    BY <2>1, ScheduleAssumption
  <2>3. TimeOf(armed) \in Int
    BY TimesAre
  <2> QED BY <2>1, <2>2, <2>3, AgePasses, ScheduleAssumption
<1>2. /\ Age(start, Opening) = Age(end, Opening) - (end - start) /\ Age(end, Opening) \in Int
      /\ Age(start, Closing) = Age(end, Closing) - (end - start) /\ Age(end, Closing) \in Int
  BY <1>0, <1>1
<1> QED BY <1>2 DEF InWindow

\* A day has boundaries.
LEMMA DayHasSome ==
    ASSUME times \in Schedules, NEW end \in Int
    PROVE  Span(end - Day, end) # {}
<1> DEFINE start == end - Day
           a == Age(end, TimeOf(TRUE))
<1>0. start \in Int /\ Day \in Nat \ {0}
  BY ScheduleAssumption
<1>1. /\ a \in 0 .. Day - 1
      /\ start < end - a => [at |-> end - a, armed |-> TRUE] \in Span(start, end)
  <2> HIDE DEF start
  <2> QED BY <1>0, LastOfKind
<1> HIDE DEF a
<1>2. start < end - a
  BY <1>0, <1>1
<1> QED BY <1>1, <1>2
-----------------------------------------------------------------------------
\* FirstOf is the least of the days.
LEMMA FirstIs ==
    ASSUME NEW days \in SUBSET Int, NEW k \in days, \A j \in days : k <= j
    PROVE  FirstOf(days) = k
<1>1. FirstOf(days) \in days /\ \A j \in days : FirstOf(days) <= j
  BY DEF FirstOf
<1>2. FirstOf(days) \in Int /\ k \in Int /\ FirstOf(days) <= k /\ k <= FirstOf(days)
  BY <1>1
<1> HIDE DEF FirstOf
<1> QED BY <1>2

\* The first date with a boundary ahead has the next one.
LEMMA NextIsNext ==
    ASSUME times \in Schedules, SameDate, clock \in 0 .. Day - 1
    PROVE  ShownIsNext
<1>d. Day \in Nat \ {0}
  BY ScheduleAssumption
<1> USE <1>d
<1> DEFINE T == Today
           D == T \div Day
           A(i) == Found({D + i}, T, T + 4 * Day)
           ahead(i) == Within({D + i}, T, T + 4 * Day)
           days == {i \in 0 .. 2 : ahead(i) # <<>>}
           S == Span(T, T + Day)
           m == Head(AllTransitions(T, T + Day))
<1>0. T \in Int /\ T + Day \in Int /\ T + 4 * Day \in Int /\ D \in Int
      /\ T = D * Day + (T % Day) /\ T % Day \in 0 .. Day - 1
  <2>1. T \in Int /\ T + Day \in Int /\ T + 4 * Day \in Int
    BY DEF Today
  <2> HIDE DEF T
  <2> QED BY <2>1, DayDivides
<1>t. ScheduleInfo = IF days = {} THEN <<>> ELSE <<Head(ahead(FirstOf(days)))>>
  BY DEF ScheduleInfo, NextTransition
<1>u. ShownIsNext <=> ScheduleInfo = <<m>>
  BY DEF ShownIsNext
<1> HIDE DEF T, D
<1>1. \A i \in 0 .. 2 : Ordered(ahead(i), A(i)) /\ A(i) \subseteq Moments
  <2> SUFFICES ASSUME NEW i \in 0 .. 2 PROVE Ordered(ahead(i), A(i)) /\ A(i) \subseteq Moments
    OBVIOUS
  <2>1. D + i \in Int
    BY <1>0
  <2>2. \A b \in A(i) : b \in Moments /\ T < b.at /\ b.at <= T + 4 * Day
    BY <2>1, BoundariesAre DEF Found
  <2>3. IsFiniteSet(A(i)) /\ A(i) \subseteq Moments
    BY <1>0, <2>2, BoundedIsFinite
  <2>4. ahead(i) = InOrder(A(i))
    BY DEF Within, Found
  <2> QED BY <2>3, <2>4, InOrderIs
<1>a. \A i \in 0 .. 2 : \A b \in Moments :
         b \in A(i) <=> b.at = (D + i) * Day + TimeOf(b.armed) /\ T < b.at /\ b.at <= T + 4 * Day
  <2> SUFFICES ASSUME NEW i \in 0 .. 2, NEW b \in Moments
               PROVE  b \in A(i) <=> b.at = (D + i) * Day + TimeOf(b.armed) /\ T < b.at /\ b.at <= T + 4 * Day
    OBVIOUS
  <2>1. D + i \in Int
    BY <1>0
  <2>2. b \in Boundaries(D + i) <=> b.at = (D + i) * Day + TimeOf(b.armed)
    BY <2>1, BoundariesAre
  <2> QED BY <2>2 DEF Found
<1>2. IsFirst(m, S) /\ m \in S /\ m \in Moments
  <2>1. S # {}
    <3>1. T + Day - Day = T
      BY <1>0
    <3> DEFINE end == T + Day
    <3>2. end \in Int /\ end - Day = T
      BY <1>0, <3>1
    <3> HIDE DEF end
    <3>3. Span(end - Day, end) # {}
      BY <3>2, DayHasSome
    <3>4. Span(T, end) # {}
      BY <3>2, <3>3
    <3> QED BY <3>4 DEF end
  <2>2. Ordered(AllTransitions(T, T + Day), S)
    BY <1>0, TransitionsAre
  <2>3. IsFirst(m, S)
    BY <2>1, <2>2 DEF Ordered
  <2> QED BY <2>3, SpanIsFinite, <1>0 DEF IsFirst
<1> HIDE DEF m, A, ahead
<1>3. PICK d \in Int : m.at = d * Day + TimeOf(m.armed) /\ T < m.at /\ m.at <= T + Day
  BY <1>2 DEF Span
<1>v. \A b \in Moments : b.at \in Int /\ TimeOf(b.armed) \in 0 .. Day - 1
  <2>1. \A b \in Moments : b.armed \in BOOLEAN /\ b.at \in Int
    BY DEF Moments
  <2> QED BY <2>1, TimesAre DEF TimeOf
<1>4. d = D \/ d = D + 1
  <2>1. /\ d * Day \in Int /\ (d + 1) * Day = d * Day + Day /\ D * Day \in Int
        /\ (D + 1) * Day = D * Day + Day /\ (D + 1 + 1) * Day = (D + 1) * Day + Day
    BY <1>0, DaysAreOrdered
  <2>2. D * Day < (d + 1) * Day
    BY <1>0, <1>2, <1>3, <1>v, <2>1
  <2>3. d * Day < (D + 1 + 1) * Day
    BY <1>0, <1>2, <1>3, <1>v, <2>1
  <2>4. D <= d /\ d <= D + 1
    BY <1>0, <2>2, <2>3, DaysAreOrdered
  <2> QED BY <1>0, <2>4
<1> DEFINE k == d - D
<1>5. k \in 0 .. 2 /\ D + k = d
  BY <1>0, <1>4
<1>6. m \in A(k)
  BY <1>0, <1>2, <1>3, <1>5, <1>a, <1>v
<1> HIDE DEF k
<1>7. k \in days
  BY <1>1, <1>5, <1>6 DEF Ordered
<1>8. \A j \in days : k <= j
  <2> SUFFICES ASSUME NEW j \in days, j < k PROVE FALSE
    BY <1>5
  <2>1. PICK b : b \in A(j)
    BY <1>1 DEF Ordered
  <2>2. /\ b \in Moments /\ b.at = (D + j) * Day + TimeOf(b.armed) /\ T < b.at /\ b.at <= T + 4 * Day
        /\ D + j \in Int /\ j \in 0 .. 2
    BY <1>0, <1>1, <1>a, <2>1
  <2>3. b.at < m.at
    <3>1. /\ (D + j + 1) * Day = (D + j) * Day + Day /\ (D + j) * Day \in Int /\ d * Day \in Int
          /\ D + j + 1 <= d /\ D + j + 1 \in Int
      BY <1>0, <1>5, <2>2, DaysAreOrdered
    <3>2. (D + j + 1) * Day <= d * Day
      BY <3>1, DaysAreOrdered
    <3>3. /\ TimeOf(b.armed) \in 0 .. Day - 1 /\ TimeOf(m.armed) \in 0 .. Day - 1
          /\ b.at = (D + j) * Day + TimeOf(b.armed) /\ m.at = d * Day + TimeOf(m.armed)
      BY <1>2, <1>3, <1>v, <2>2
    <3> DEFINE x == (D + j) * Day
               y == d * Day
               z == (D + j + 1) * Day
    <3>4. /\ z = x + Day /\ x \in Int /\ y \in Int /\ z <= y
          /\ b.at = x + TimeOf(b.armed) /\ m.at = y + TimeOf(m.armed)
      BY <3>1, <3>2, <3>3
    <3> HIDE DEF x, y, z
    <3> QED BY <3>3, <3>4
  <2>4. b \in S
    <3>1. \E i \in Int : b.at = i * Day + TimeOf(b.armed)
      BY <2>2
    <3>2. b.at <= T + Day
      BY <1>0, <1>2, <1>3, <1>v, <2>2, <2>3
    <3> QED BY <2>2, <3>1, <3>2 DEF Span
  <2>5. Earlier(m, b)
    BY <1>2, <2>3, <2>4, <1>v DEF IsFirst
  <2> QED BY <1>2, <1>v, <2>2, <2>3, <2>5 DEF Earlier
<1>9. FirstOf(days) = k
  <2>1. days \in SUBSET Int
    OBVIOUS
  <2> HIDE DEF days
  <2> QED BY <1>7, <1>8, <2>1, FirstIs
<1>10. Head(ahead(k)) = m
  <2> DEFINE h == Head(ahead(k))
  <2>1. h \in A(k) /\ (h = m \/ Earlier(h, m))
    BY <1>1, <1>5, <1>6 DEF Ordered, IsFirst
  <2> HIDE DEF h
  <2>2. ASSUME Earlier(h, m) PROVE FALSE
    <3>1. h \in Moments /\ h.at <= m.at /\ T < h.at /\ h.at = (D + k) * Day + TimeOf(h.armed)
      <4>1. h \in Moments
        BY <1>1, <1>5, <2>1
      <4>2. h.at <= m.at
        BY <1>2, <1>v, <2>2, <4>1 DEF Earlier
      <4> QED BY <1>5, <1>a, <2>1, <4>1, <4>2
    <3>2. h \in S
      <4>1. \E i \in Int : h.at = i * Day + TimeOf(h.armed)
        BY <1>5, <3>1
      <4>2. h.at <= T + Day
        BY <1>0, <1>2, <1>3, <1>v, <3>1
      <4> QED BY <3>1, <4>1, <4>2 DEF Span
    <3>3. h = m \/ Earlier(m, h)
      BY <1>2, <3>2 DEF IsFirst
    <3> QED BY <1>2, <2>2, <3>1, <3>3, Comparable
  <2> QED BY <2>1, <2>2 DEF h
<1>11. ScheduleInfo = <<m>>
  <2>1. days # {}
    BY <1>7
  <2> HIDE DEF days
  <2> QED BY <1>t, <1>9, <1>10, <2>1
<1> QED BY <1>11, <1>u
-----------------------------------------------------------------------------
\* The window is that of the last look.
ScheduleInv ==
    /\ ScheduleTypeOK
    /\ enabled /\ SameDate /\ window # "none" => (window = "armed" <=> InWindow(Today - elapsed))

\* The instants of the last look and of this one.
LEMMA TodayIs ==
    ASSUME ScheduleTypeOK
    PROVE  /\ Today \in Int /\ elapsed \in Nat /\ Today - elapsed \in Int /\ Today - Day \in Int
           /\ Today - elapsed <= Today
BY ScheduleAssumption DEF ScheduleTypeOK, Today

\* A tick moves both ends by one or back by a whole day; a look that finds nothing leaves
\* the window as it was, and one that finds something takes it from the last.
LEMMA ScheduleStep ==
    ASSUME ScheduleInv, [ScheduleNext]_scheduleVars
    PROVE  ScheduleInv'
<1> USE ScheduleAssumption
<1>0. /\ ScheduleTypeOK
      /\ enabled /\ SameDate /\ window # "none" => (window = "armed" <=> InWindow(Today - elapsed))
  BY DEF ScheduleInv
<1>t. /\ times \in Schedules /\ enabled \in BOOLEAN
      /\ clock \in 0 .. Day - 1 /\ elapsed \in 0 .. MaxElapsed
      /\ window \in {"armed", "disarmed", "none"}
  BY <1>0 DEF ScheduleTypeOK
<1>n. \A i \in DOMAIN <<>> : FALSE
  OBVIOUS
<1>1. CASE ScheduleClock
  <2>1. /\ clock' = (clock + 1) % Day /\ elapsed' = elapsed + 1 /\ elapsed < MaxElapsed /\ fired' = <<>>
        /\ times' = times /\ enabled' = enabled /\ window' = window
    BY <1>1 DEF ScheduleClock
  <2>2. clock' \in 0 .. Day - 1 /\ (clock' = clock + 1 \/ clock' = clock + 1 - Day)
    <3>1. CASE clock + 1 < Day
      <4>1. clock + 1 \in 0 .. Day - 1 /\ 0 * Day + (clock + 1) = clock + 1 /\ 0 \in Int
        BY <1>t, <3>1
      <4>2. (clock + 1) % Day = clock + 1
        BY <4>1, DayIs
      <4> QED BY <2>1, <4>1, <4>2
    <3>2. CASE clock + 1 = Day
      <4>1. 0 \in 0 .. Day - 1 /\ 1 * Day + 0 = clock + 1 /\ 1 \in Int /\ clock + 1 - Day = 0
        BY <1>t, <3>2
      <4>2. (clock + 1) % Day = 0
        BY <4>1, DayIs
      <4> QED BY <2>1, <3>2, <4>1, <4>2
    <3> QED BY <1>t, <3>1, <3>2
  <2>3. ScheduleTypeOK'
    BY <1>t, <1>n, <2>1, <2>2 DEF ScheduleTypeOK
  <2>4. ASSUME enabled', SameDate', window' # "none"
        PROVE  window' = "armed" <=> InWindow(Today - elapsed)'
    <3>1. enabled /\ SameDate /\ window # "none"
      BY <2>1, <2>4 DEF SameDate, Boundaries
    <3>2. InWindow(Today - elapsed)' <=> InWindow(Today' - elapsed')
      BY <2>1 DEF InWindow, Opening, Closing
    <3>3. Today' - elapsed' = Today - elapsed \/ Today' - elapsed' = (Today - elapsed) - Day
      <4>1. Today' = 2 * Day + clock' /\ Today = 2 * Day + clock
        BY DEF Today
      <4> DEFINE x == 2 * Day
      <4>2. Today' = x + clock' /\ Today = x + clock /\ x \in Int
        BY <4>1
      <4> HIDE DEF x
      <4>3. CASE clock' = clock + 1
        BY <1>t, <2>1, <4>2, <4>3
      <4>4. CASE clock' = clock + 1 - Day
        BY <1>t, <2>1, <4>2, <4>4
      <4> QED BY <2>2, <4>3, <4>4
    <3>4. InWindow((Today - elapsed) - Day) <=> InWindow(Today - elapsed)
      <4>1. Today - elapsed \in Int /\ Opening \in Int /\ Closing \in Int
        BY <1>0, <1>t, TodayIs, TimesAre
      <4> QED BY <4>1, AgeRepeats DEF InWindow
    <3> QED BY <1>0, <2>1, <3>1, <3>2, <3>3, <3>4
  <2> QED BY <2>3, <2>4 DEF ScheduleInv
<1>2. CASE Reconfigure
  <2>1. /\ times' \in Schedules /\ enabled' \in BOOLEAN /\ fired' = <<>> /\ window' = "none"
        /\ clock' = clock /\ elapsed' = elapsed
    BY <1>2 DEF Reconfigure
  <2>2. ScheduleTypeOK'
    BY <1>t, <1>n, <2>1 DEF ScheduleTypeOK
  <2> QED BY <2>1, <2>2 DEF ScheduleInv
<1>3. CASE Look
  <2> DEFINE start == Today - elapsed
             found == IF enabled THEN TransitionsBetween(start, Today) ELSE <<>>
  <2>1. /\ elapsed' = 0 /\ fired' = found
        /\ window' = IF found = <<>> THEN window ELSE IF Last(found).armed THEN "armed" ELSE "disarmed"
        /\ times' = times /\ enabled' = enabled /\ clock' = clock
    BY <1>3 DEF Look
  <2>2. Today \in Int /\ start \in Int /\ start <= Today /\ Today' = Today /\ Today - MaxElapsed + 1 <= start + 1
    BY <1>0, <1>t, <2>1, TodayIs DEF Today
  <2> HIDE DEF start, found
  <2>3. \A i \in DOMAIN found : /\ found[i] \in [at : Int, armed : BOOLEAN]
                                /\ found[i].at \in Today - MaxElapsed + 1 .. Today
    <3>1. CASE enabled
      <4> DEFINE dates == start \div Day .. Today \div Day
      <4>1. start \div Day \in Int /\ Today \div Day \in Int
        BY <2>2, DayDivides
      <4>2. \A b \in Found(dates, start, Today) : b \in Moments /\ start < b.at /\ b.at <= Today
        BY <1>t, <4>1, BoundariesAre DEF Found
      <4>3. Ordered(InOrder(Found(dates, start, Today)), Found(dates, start, Today))
        <5>1. Found(dates, start, Today) \subseteq Moments
          BY <4>2
        <5>2. IsFiniteSet(Found(dates, start, Today))
          BY <2>2, <4>2, <5>1, BoundedIsFinite
        <5> QED BY <5>1, <5>2, InOrderIs
      <4>4. found = InOrder(Found(dates, start, Today))
        BY <3>1 DEF found, TransitionsBetween, Within, Found
      <4>5. \A i \in DOMAIN found : found[i] \in Found(dates, start, Today)
        BY <4>3, <4>4 DEF Ordered
      <4> HIDE DEF dates
      <4>6. ASSUME NEW i \in DOMAIN found
            PROVE  found[i] \in Moments /\ found[i].at \in Today - MaxElapsed + 1 .. Today
        <5>1. found[i] \in Moments /\ start < found[i].at /\ found[i].at <= Today
          BY <4>2, <4>5
        <5>2. found[i].at \in Int
          BY <5>1 DEF Moments
        <5> QED BY <1>t, <2>2, <5>1, <5>2
      <4> QED BY <4>6 DEF Moments
    <3>2. CASE ~enabled
      BY <1>n, <3>2 DEF found
    <3> QED BY <3>1, <3>2
  <2>4. ScheduleTypeOK'
    <3>1. \A i \in DOMAIN fired' : /\ fired'[i] \in [at : Int, armed : BOOLEAN]
                                   /\ fired'[i].at \in Today' - MaxElapsed + 1 .. Today'
      BY <2>1, <2>2, <2>3
    <3> QED BY <1>t, <2>1, <3>1 DEF ScheduleTypeOK
  <2>5. ASSUME enabled', SameDate', window' # "none"
        PROVE  window' = "armed" <=> InWindow(Today - elapsed)'
    <3>1. enabled /\ SameDate
      BY <2>1, <2>5 DEF SameDate, Boundaries
    <3>2. InWindow(Today - elapsed)' <=> InWindow(Today)
      <4>1. Today' - elapsed' = Today
        BY <2>1, <2>2
      <4>2. InWindow(Today - elapsed)' <=> InWindow(Today' - elapsed')
        BY <2>1 DEF InWindow, Opening, Closing
      <4> QED BY <4>1, <4>2
    <3>3. Ordered(found, Span(start, Today))
      <4>1. found = TransitionsBetween(start, Today)
        BY <3>1 DEF found
      <4> QED BY <1>t, <2>2, <3>1, <4>1, TransitionsAre
    <3>4. CASE found = <<>>
      <4>1. Span(start, Today) = {}
        BY <3>3, <3>4 DEF Ordered
      <4>2. InWindow(start) <=> InWindow(Today)
        BY <1>t, <2>2, <4>1, NothingChanges
      <4>3. window' = window
        BY <2>1, <3>4
      <4> QED BY <1>0, <2>5, <3>1, <3>2, <4>2, <4>3 DEF start
    <3>5. CASE found # <<>>
      <4>1. IsLast(Last(found), Span(start, Today))
        BY <3>3, <3>5 DEF Ordered
      <4>2. Last(found).armed <=> InWindow(Today)
        BY <1>t, <2>2, <4>1, LatestTells
      <4>3. window' = IF Last(found).armed THEN "armed" ELSE "disarmed"
        BY <2>1, <3>5
      <4> QED BY <3>2, <4>2, <4>3
    <3> QED BY <3>4, <3>5
  <2> QED BY <2>4, <2>5 DEF ScheduleInv
<1>4. CASE UNCHANGED scheduleVars
  <2>1. /\ times' = times /\ enabled' = enabled /\ clock' = clock /\ elapsed' = elapsed
        /\ fired' = fired /\ window' = window
    BY <1>4 DEF scheduleVars
  <2>2. Today' = Today
    BY <2>1 DEF Today
  <2>3. ScheduleTypeOK'
    BY <1>0, <2>1, <2>2 DEF ScheduleTypeOK
  <2>4. (SameDate' <=> SameDate) /\ (InWindow(Today - elapsed)' <=> InWindow(Today - elapsed))
    BY <2>1, <2>2 DEF SameDate, Boundaries, InWindow, Opening, Closing
  <2> QED BY <1>0, <2>1, <2>3, <2>4 DEF ScheduleInv
<1> QED BY <1>1, <1>2, <1>3, <1>4 DEF ScheduleNext

\* Nothing has fired yet.
LEMMA ScheduleStarts == ScheduleInit => ScheduleInv
<1> SUFFICES ASSUME ScheduleInit PROVE ScheduleInv
  OBVIOUS
<1>1. \A i \in DOMAIN <<>> : FALSE
  OBVIOUS
<1>2. ScheduleTypeOK /\ window = "none"
  <2>1. times \in Schedules /\ enabled \in BOOLEAN
    BY Zenon DEF ScheduleInit
  <2> QED BY <1>1, <2>1, ScheduleAssumption DEF ScheduleInit, ScheduleTypeOK
<1> QED BY <1>2 DEF ScheduleInv

\* What the invariant says of the window, the dashboard and a re-arm.
LEMMA ScheduleInvSuffices ==
    ASSUME ScheduleInv
    PROVE  ScheduleHolds
<1> USE ScheduleAssumption
<1>0. /\ ScheduleTypeOK /\ times \in Schedules /\ clock \in 0 .. Day - 1
      /\ enabled /\ SameDate /\ window # "none" => (window = "armed" <=> InWindow(Today - elapsed))
  BY DEF ScheduleInv, ScheduleTypeOK
<1>t. /\ Today \in Int /\ Today - elapsed \in Int /\ Today - Day \in Int /\ Today - elapsed <= Today
  BY <1>0, TodayIs
<1>1. ASSUME SameDate PROVE WindowIsCurrent /\ ShownIsNext /\ RearmKeepsToTheWindow
  <2> DEFINE start == Today - elapsed
             passed == TransitionsBetween(Today - Day, Today)
  <2>1. /\ AllTransitions(start, Today) = TransitionsBetween(start, Today)
        /\ Ordered(TransitionsBetween(start, Today), Span(start, Today))
    BY <1>0, <1>1, <1>t, TransitionsAre
  <2>2. AllTransitions(Today - Day, Today) = passed /\ Ordered(passed, Span(Today - Day, Today))
    BY <1>0, <1>1, <1>t, TransitionsAre
  <2>3. Span(Today - Day, Today) # {}
    BY <1>0, <1>t, DayHasSome
  <2>4. passed # <<>> /\ IsLast(Last(passed), Span(Today - Day, Today))
    BY <2>2, <2>3 DEF Ordered
  <2>5. Last(passed).armed <=> InWindow(Today)
    BY <1>0, <1>t, <2>4, LatestTells
  <2>6. ASSUME enabled, window # "none", AllTransitions(start, Today) = <<>>
        PROVE  window = "armed" <=> Last(passed).armed
    <3>1. Span(start, Today) = {}
      BY <2>1, <2>6 DEF Ordered
    <3>2. InWindow(start) <=> InWindow(Today)
      BY <1>0, <1>t, <3>1, NothingChanges
    <3> QED BY <1>0, <1>1, <2>5, <2>6, <3>2
  <2> HIDE DEF passed, start
  <2>7. WindowIsCurrent
    BY <2>2, <2>6 DEF WindowIsCurrent, start
  <2>8. AllowsRearm <=> (enabled => Last(passed).armed)
    BY <2>4 DEF AllowsRearm, passed
  <2>9. RearmKeepsToTheWindow
    BY <2>6, <2>8 DEF RearmKeepsToTheWindow, start
  <2>10. ShownIsNext
    BY <1>0, <1>1, NextIsNext
  <2> QED BY <2>7, <2>9, <2>10
<1> QED BY <1>0, <1>1 DEF ScheduleHolds

\* Whatever the looks of the scheduler's thread and the changes of its schedule, what
\* has fired, what the dashboard shows and what a re-arm asks agree with the schedule, as
\* long as its boundaries are on the same date in local time and in UTC: for every
\* length of the day, every schedule and any time between two looks.
THEOREM ScheduleIsKept == ScheduleSpec => []ScheduleHolds
<1>1. ScheduleInv /\ [ScheduleNext]_scheduleVars => ScheduleInv'
  BY ScheduleStep
<1>2. ScheduleInv => ScheduleHolds
  BY ScheduleInvSuffices
<1> QED BY <1>1, <1>2, ScheduleStarts, PTL DEF ScheduleSpec
=============================================================================

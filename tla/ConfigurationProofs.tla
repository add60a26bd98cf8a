------------------------- MODULE ConfigurationProofs -------------------------
(***************************************************************************)
(* Proofs about the configuration and what goes by it: the deterrent page, *)
(* the armed flag and its file, the configuration store, the secrets and   *)
(* the editor; the alerts, the digest, the classes of a model and the      *)
(* comparison of two, each for any constants.                              *)
(***************************************************************************)
EXTENDS MCConfiguration, SeqLemmas, TLAPS

-----------------------------------------------------------------------------
(* The page of the deterrent.                                              *)

\* What a page holds is what it could hold.
PagesTyped ==
    pages \in [Pages -> [open : BOOLEAN, devices : [Devices -> DeviceNames \cup {NoName}],
                         groups : [Groups -> SUBSET DeviceNames]]]

DeterrentInv == DeterrentHolds /\ PagesTyped

\* A name other than NoName is registered by some device.
LEMMA RegisteredNames ==
    ASSUME NEW devs \in [Devices -> DeviceNames \cup {NoName}], NEW S \in SUBSET DeviceNames
    PROVE  Registered(devs) \in SUBSET DeviceNames /\ S \cap Registered(devs) \in SUBSET DeviceNames
BY DeterrentAssumption DEF Registered

LEMMA DeterrentStep == ASSUME DeterrentInv, [DeterrentNext]_deterrentVars PROVE DeterrentInv'
<1> USE DEF DeterrentInv
<1>1. ASSUME NEW p \in Pages, OpenPage(p) PROVE DeterrentInv'
  <2>1. DeterrentHolds'
    BY <1>1 DEF OpenPage, DeterrentHolds, DeterrentTypeOK, GroupsResolve, Registered
  <2>2. PagesTyped'
    BY <1>1 DEF OpenPage, DeterrentHolds, DeterrentTypeOK, PagesTyped
  <2> QED BY <2>1, <2>2
<1>2. ASSUME NEW p \in Pages, NEW typed \in SUBSET Credentials, SaveDeterrent(p, typed)
      PROVE  DeterrentInv'
  <2> DEFINE sent == pages[p].devices
  <2>1. sent \in [Devices -> DeviceNames \cup {NoName}] /\ pages[p].groups \in [Groups -> SUBSET DeviceNames]
    BY DEF PagesTyped
  <2>2. /\ devices' = sent
        /\ dpCodes' = CarriedCodes(sent)
        /\ tuya' = SavedCredentials(typed)
        /\ groups' = [g \in Groups |-> pages[p].groups[g] \cap Registered(sent)]
        /\ pages' = [pages EXCEPT ![p] = Closed]
    BY <1>2 DEF SaveDeterrent, KnownNames
  <2>3. tuya' \subseteq Credentials /\ tuya' \in {{}, Credentials}
    BY <2>2 DEF SavedCredentials, DeterrentHolds, DeterrentTypeOK, GroupsResolve
  <2>4. groups' \in [Groups -> SUBSET DeviceNames]
    BY <2>1, <2>2, RegisteredNames
  <2>5. DeterrentTypeOK'
    BY <2>1, <2>2, <2>3, <2>4 DEF DeterrentHolds, DeterrentTypeOK, CarriedCodes
  <2>6. GroupsResolve'
    BY <2>1, <2>2, <2>3 DEF GroupsResolve, CarriedCodes, Registered
  <2>7. PagesTyped'
    BY <2>2 DEF PagesTyped, Closed
  <2> QED BY <2>5, <2>6, <2>7 DEF DeterrentHolds
<1>3. ASSUME NEW p \in Pages, NEW d \in Devices, NEW n \in DeviceNames \cup {NoName},
             EditDevice(p, d, n)
      PROVE  DeterrentInv'
  <2>1. DeterrentHolds'
    BY <1>3 DEF EditDevice, DeterrentHolds, DeterrentTypeOK, GroupsResolve, Registered
  <2>2. PagesTyped'
    BY <1>3 DEF EditDevice, PagesTyped
  <2> QED BY <2>1, <2>2
<1>4. ASSUME NEW p \in Pages, NEW g \in Groups, NEW n \in DeviceNames, EditGroup(p, g, n)
      PROVE  DeterrentInv'
  <2>1. DeterrentHolds'
    BY <1>4 DEF EditGroup, DeterrentHolds, DeterrentTypeOK, GroupsResolve, Registered
  <2>2. PagesTyped'
    <3> DEFINE listed == IF n \in pages[p].groups[g] THEN pages[p].groups[g] \ {n}
                         ELSE pages[p].groups[g] \cup {n}
    <3>1. listed \in SUBSET DeviceNames
      BY DEF PagesTyped
    <3>2. pages' = [pages EXCEPT ![p].groups[g] = listed]
      BY <1>4 DEF EditGroup
    <3> HIDE DEF listed
    <3> QED BY <3>1, <3>2 DEF PagesTyped
  <2> QED BY <2>1, <2>2
<1>5. ASSUME NEW d \in Devices, SetDpCode(d) PROVE DeterrentInv'
  BY <1>5 DEF SetDpCode, DeterrentHolds, DeterrentTypeOK, GroupsResolve, Registered, PagesTyped
<1>6. ASSUME UNCHANGED deterrentVars PROVE DeterrentInv'
  BY <1>6 DEF deterrentVars, DeterrentHolds, DeterrentTypeOK, GroupsResolve, Registered, PagesTyped
<1> QED BY <1>1, <1>2, <1>3, <1>4, <1>5, <1>6 DEF DeterrentNext

\* Whatever pages are saved over one another, every name in a group is a device's,
\* every code too, and the credentials are a pair.  For any number of pages.
THEOREM DeterrentIsCorrect == DeterrentSpec => []DeterrentHolds
<1>1. DeterrentInit => DeterrentInv
  <2> SUFFICES ASSUME DeterrentInit PROVE DeterrentInv
    OBVIOUS
  <2>1. DeterrentTypeOK
    BY DEF DeterrentInit, DeterrentTypeOK
  <2>2. GroupsResolve
    BY DEF DeterrentInit, GroupsResolve
  <2>3. PagesTyped
    BY DEF DeterrentInit, PagesTyped, Closed
  <2> QED BY <2>1, <2>2, <2>3 DEF DeterrentInv, DeterrentHolds
<1>2. DeterrentInv /\ [DeterrentNext]_deterrentVars => DeterrentInv'
  BY DeterrentStep
<1> QED BY <1>1, <1>2, PTL DEF DeterrentSpec, DeterrentInv

-----------------------------------------------------------------------------
(* The armed flag and its file.                                            *)

\* Somebody who holds a copy that is not stale has what the file says, but for what he
\* means to change.
UpToDate(holder) ==
    holder.at = "saving" /\ ~holder.stale =>
        \A s \in Settings : s \in holder.means \/ holder.copy[s] = file[s]

\* What the watcher has read is what the file says, unless it has been replaced since.
ArmingIsRead == watcher.at = "arming" /\ ~changed => watcher.armed = file["armed"]

ArmFileInv ==
    /\ ArmFileHolds /\ ArmingIsRead
    /\ UpToDate(page) /\ UpToDate(web) /\ UpToDate(thread)
    /\ page.means = {}

Holders == [at : {"idle", "loading", "saving"}, copy : File, means : SUBSET Settings, stale : BOOLEAN]

LEMMA IdleFacts == Idle \in Holders /\ Idle.at = "idle" /\ Idle.means = {}
<1>1. NoCopy \in Holders /\ NoCopy.means = {}
  BY DEF NoCopy, Holding, Holders, File
<1> QED BY <1>1 DEF Idle, Holders

\* Somebody's copy is stale once the file has been replaced.
LEMMA OutdatedFacts ==
    ASSUME NEW holder \in Holders
    PROVE  /\ Outdated(holder) \in Holders
           /\ Outdated(holder).at = holder.at /\ Outdated(holder).means = holder.means
           /\ Outdated(holder).at = "saving" => Outdated(holder).stale
BY DEF Outdated, Holders

\* What a handler makes of the file is a file, and differs in the one setting.
LEMMA WithFacts ==
    ASSUME NEW old \in File, NEW setting \in Settings, NEW on \in BOOLEAN
    PROVE  /\ With(old, setting, on) \in File
           /\ \A s \in Settings : s = setting \/ With(old, setting, on)[s] = old[s]
BY DEF With, File

\* The same of the setting that is edited in the form.
LEMMA FlipFacts ==
    ASSUME NEW old \in File, NEW setting \in Settings
    PROVE  /\ [old EXCEPT ![setting] = ~@] \in File
           /\ \A s \in Settings : s = setting \/ [old EXCEPT ![setting] = ~@][s] = old[s]
BY DEF File

\* The scheduler's thread on its way to the file.
LEMMA StartedFacts ==
    ASSUME NEW on \in BOOLEAN
    PROVE  LET started == [Idle EXCEPT !.at = "loading", !.means = {"armed"}, !.copy["armed"] = on]
           IN  started \in Holders /\ started.at = "loading" /\ started.means = {"armed"}
<1> DEFINE copy == [Idle.copy EXCEPT !["armed"] = on]
<1>1. copy \in File /\ {"armed"} \in SUBSET Settings
  BY IdleFacts DEF Holders, File, Settings
<1>2. [Idle EXCEPT !.at = "loading", !.means = {"armed"}, !.copy["armed"] = on]
        = [Idle EXCEPT !.at = "loading", !.means = {"armed"}, !.copy = copy]
  BY IdleFacts DEF Holders
<1> HIDE DEF copy
<1>3. /\ [Idle EXCEPT !.at = "loading", !.means = {"armed"}, !.copy = copy] \in Holders
      /\ [Idle EXCEPT !.at = "loading", !.means = {"armed"}, !.copy = copy].at = "loading"
      /\ [Idle EXCEPT !.at = "loading", !.means = {"armed"}, !.copy = copy].means = {"armed"}
  BY <1>1, IdleFacts DEF Holders
<1> QED BY <1>2, <1>3

LEMMA ArmFileTypes ==
    ArmFileTypeOK <=>
        /\ file \in File /\ changed \in BOOLEAN /\ armedRef \in BOOLEAN /\ unsaved \in BOOLEAN
        /\ page \in Holders /\ web \in Holders /\ thread \in Holders
        /\ web.at # "loading" /\ thread.means \subseteq {"armed"}
        /\ watcher \in [at : {"waiting", "loading", "arming"}, armed : BOOLEAN]
BY DEF ArmFileTypeOK, Holders

LEMMA ArmFileStep == ASSUME ArmFileInv, [ArmFileNext]_fileVars PROVE ArmFileInv'
<1>1. /\ file \in File /\ changed \in BOOLEAN /\ armedRef \in BOOLEAN /\ unsaved \in BOOLEAN
      /\ page \in Holders /\ web \in Holders /\ thread \in Holders
      /\ web.at # "loading" /\ thread.means \subseteq {"armed"}
      /\ watcher \in [at : {"waiting", "loading", "arming"}, armed : BOOLEAN]
  BY ArmFileTypes DEF ArmFileInv, ArmFileHolds
<1>2. /\ page.means = {} /\ "armed" \in Settings /\ \A s \in Settings : file[s] \in BOOLEAN
      /\ \A h \in Holders : h.copy \in File /\ h.stale \in BOOLEAN /\ h.copy["armed"] \in BOOLEAN
  BY <1>1 DEF File, Settings, Holders, ArmFileInv
<1>3. ArmFileTypeOK' <=>
        /\ file' \in File /\ changed' \in BOOLEAN /\ armedRef' \in BOOLEAN /\ unsaved' \in BOOLEAN
        /\ page' \in Holders /\ web' \in Holders /\ thread' \in Holders
        /\ web'.at # "loading" /\ thread'.means \subseteq {"armed"}
        /\ watcher' \in [at : {"waiting", "loading", "arming"}, armed : BOOLEAN]
  BY DEF ArmFileTypeOK, Holders
<1>4. ASSUME NEW setting \in Settings, NEW on \in BOOLEAN, WebLoads(setting, on)
      PROVE  ArmFileInv'
  <2>1. /\ web' = [at |-> "saving", copy |-> With(file, setting, on), means |-> {setting}, stale |-> FALSE]
        /\ UNCHANGED <<file, changed, page, armedRef, thread, watcher, unsaved>>
    BY <1>4, <1>1 DEF WebLoads, Holding
  <2>2. page' \in Holders /\ web' \in Holders /\ thread' \in Holders
    BY <2>1, <1>1, <1>2, IdleFacts, WithFacts DEF Holders
  <2>3. web'.at # "loading" /\ thread'.means \subseteq {"armed"} /\ page'.means = {}
    BY <2>1, <1>1, <1>2, IdleFacts, WithFacts
  <2>4. /\ file' \in File /\ changed' \in BOOLEAN /\ armedRef' \in BOOLEAN /\ unsaved' \in BOOLEAN
        /\ watcher' \in [at : {"waiting", "loading", "arming"}, armed : BOOLEAN]
    BY <2>1, <1>1, <1>2
  <2>5. DetectorFollowsFile' /\ ArmingIsRead'
    BY <1>4, <2>1, <1>1, <1>2, IdleFacts DEF WebLoads, ArmFileInv, ArmFileHolds, DetectorFollowsFile, ArmingIsRead
  <2>6. UpToDate(page)' /\ UpToDate(web)' /\ UpToDate(thread)'
    <3> DEFINE copy == With(file, setting, on)
    <3>1. \A s \in Settings : s = setting \/ copy[s] = file[s]
      BY <1>1, WithFacts
    <3>2. web' = [at |-> "saving", copy |-> copy, means |-> {setting}, stale |-> FALSE]
      BY <2>1
    <3> HIDE DEF copy
    <3> QED BY <2>1, <3>1, <3>2 DEF ArmFileInv, UpToDate
  <2> QED BY <1>3, <2>2, <2>3, <2>4, <2>5, <2>6 DEF ArmFileInv, ArmFileHolds
<1>5. ASSUME OpenForm
      PROVE  ArmFileInv'
  <2>1. /\ page' = [at |-> "saving", copy |-> file, means |-> {}, stale |-> FALSE]
        /\ UNCHANGED <<file, changed, web, armedRef, thread, watcher, unsaved>>
    BY <1>5, <1>1 DEF OpenForm, Holding
  <2>2. page' \in Holders /\ web' \in Holders /\ thread' \in Holders
    BY <2>1, <1>1, <1>2, IdleFacts DEF Holders
  <2>3. web'.at # "loading" /\ thread'.means \subseteq {"armed"} /\ page'.means = {}
    BY <2>1, <1>1, <1>2, IdleFacts
  <2>4. /\ file' \in File /\ changed' \in BOOLEAN /\ armedRef' \in BOOLEAN /\ unsaved' \in BOOLEAN
        /\ watcher' \in [at : {"waiting", "loading", "arming"}, armed : BOOLEAN]
    BY <2>1, <1>1, <1>2
  <2>5. DetectorFollowsFile' /\ ArmingIsRead'
    BY <1>5, <2>1, <1>1, <1>2, IdleFacts DEF OpenForm, ArmFileInv, ArmFileHolds, DetectorFollowsFile, ArmingIsRead
  <2>6. UpToDate(page)' /\ UpToDate(web)' /\ UpToDate(thread)'
    BY <2>1, <1>1, <1>2, IdleFacts DEF ArmFileInv, UpToDate
  <2> QED BY <1>3, <2>2, <2>3, <2>4, <2>5, <2>6 DEF ArmFileInv, ArmFileHolds
<1>6. ASSUME NEW setting \in Settings, SubmitForm(setting)
      PROVE  ArmFileInv'
  <2>1. /\ page.at = "saving" /\ page' = Idle
        /\ web' = [at |-> "saving", copy |-> [page.copy EXCEPT ![setting] = ~@], means |-> {setting},
                 stale |-> page.stale]
        /\ UNCHANGED <<file, changed, armedRef, thread, watcher, unsaved>>
    BY <1>6, <1>1 DEF SubmitForm, Holding
  <2>2. page' \in Holders /\ web' \in Holders /\ thread' \in Holders
    BY <2>1, <1>1, <1>2, IdleFacts, FlipFacts, SMTT(20) DEF Holders
  <2>3. web'.at # "loading" /\ thread'.means \subseteq {"armed"} /\ page'.means = {}
    BY <2>1, <1>1, <1>2, IdleFacts, FlipFacts
  <2>4. /\ file' \in File /\ changed' \in BOOLEAN /\ armedRef' \in BOOLEAN /\ unsaved' \in BOOLEAN
        /\ watcher' \in [at : {"waiting", "loading", "arming"}, armed : BOOLEAN]
    BY <2>1, <1>1, <1>2
  <2>5. DetectorFollowsFile' /\ ArmingIsRead'
    BY <1>6, <2>1, <1>1, <1>2, IdleFacts DEF SubmitForm, ArmFileInv, ArmFileHolds, DetectorFollowsFile, ArmingIsRead
  <2>6. UpToDate(page)' /\ UpToDate(web)' /\ UpToDate(thread)'
    <3>1. /\ web'.means = {setting} /\ web'.stale = page.stale
          /\ \A s \in Settings : s = setting \/ web'.copy[s] = page.copy[s]
      BY <2>1, <1>2, <1>1, FlipFacts
    <3>2. UpToDate(web)'
      BY <2>1, <3>1 DEF ArmFileInv, UpToDate
    <3>3. UpToDate(page)' /\ UpToDate(thread)'
      BY <2>1, IdleFacts DEF ArmFileInv, UpToDate
    <3> QED BY <3>2, <3>3
  <2> QED BY <1>3, <2>2, <2>3, <2>4, <2>5, <2>6 DEF ArmFileInv, ArmFileHolds
<1>7. ASSUME WebSaves
      PROVE  ArmFileInv'
  <2>1. /\ file' = web.copy /\ changed' = TRUE /\ web' = Idle
        /\ page' = Outdated(page) /\ thread' = Outdated(thread)
        /\ UNCHANGED <<armedRef, watcher, unsaved>>
    BY <1>7, <1>1 DEF WebSaves
  <2>2. page' \in Holders /\ web' \in Holders /\ thread' \in Holders
    BY <2>1, <1>1, <1>2, IdleFacts, OutdatedFacts DEF Holders
  <2>3. web'.at # "loading" /\ thread'.means \subseteq {"armed"} /\ page'.means = {}
    BY <2>1, <1>1, <1>2, IdleFacts, OutdatedFacts
  <2>4. /\ file' \in File /\ changed' \in BOOLEAN /\ armedRef' \in BOOLEAN /\ unsaved' \in BOOLEAN
        /\ watcher' \in [at : {"waiting", "loading", "arming"}, armed : BOOLEAN]
    BY <2>1, <1>1, <1>2
  <2>5. DetectorFollowsFile' /\ ArmingIsRead'
    BY <1>7, <2>1, <1>1, <1>2, IdleFacts DEF WebSaves, ArmFileInv, ArmFileHolds, DetectorFollowsFile, ArmingIsRead
  <2>6. UpToDate(page)' /\ UpToDate(web)' /\ UpToDate(thread)'
    BY <2>1, <1>1, <1>2, IdleFacts, OutdatedFacts DEF ArmFileInv, UpToDate
  <2> QED BY <1>3, <2>2, <2>3, <2>4, <2>5, <2>6 DEF ArmFileInv, ArmFileHolds
<1>8. ASSUME WebFileCrash
      PROVE  ArmFileInv'
  <2>1. /\ web' = Idle
        /\ UNCHANGED <<file, changed, page, armedRef, thread, watcher, unsaved>>
    BY <1>8, <1>1 DEF WebFileCrash
  <2>2. page' \in Holders /\ web' \in Holders /\ thread' \in Holders
    BY <2>1, <1>1, <1>2, IdleFacts DEF Holders
  <2>3. web'.at # "loading" /\ thread'.means \subseteq {"armed"} /\ page'.means = {}
    BY <2>1, <1>1, <1>2, IdleFacts
  <2>4. /\ file' \in File /\ changed' \in BOOLEAN /\ armedRef' \in BOOLEAN /\ unsaved' \in BOOLEAN
        /\ watcher' \in [at : {"waiting", "loading", "arming"}, armed : BOOLEAN]
    BY <2>1, <1>1, <1>2
  <2>5. DetectorFollowsFile' /\ ArmingIsRead'
    BY <1>8, <2>1, <1>1, <1>2, IdleFacts DEF WebFileCrash, ArmFileInv, ArmFileHolds, DetectorFollowsFile, ArmingIsRead
  <2>6. UpToDate(page)' /\ UpToDate(web)' /\ UpToDate(thread)'
    BY <2>1, <1>1, <1>2, IdleFacts DEF ArmFileInv, UpToDate
  <2> QED BY <1>3, <2>2, <2>3, <2>4, <2>5, <2>6 DEF ArmFileInv, ArmFileHolds
<1>9. ASSUME NEW on \in BOOLEAN, Transition(on)
      PROVE  ArmFileInv'
  <2>1. /\ armedRef' = on
        /\ thread' \in Holders /\ thread'.at = "loading" /\ thread'.means = {"armed"}
        /\ UNCHANGED <<file, changed, page, web, watcher, unsaved>>
    BY <1>9, <1>1, StartedFacts DEF Transition, webVars
  <2>2. page' \in Holders /\ web' \in Holders /\ thread' \in Holders
    BY <2>1, <1>1, <1>2, IdleFacts, StartedFacts DEF Holders
  <2>3. web'.at # "loading" /\ thread'.means \subseteq {"armed"} /\ page'.means = {}
    BY <2>1, <1>1, <1>2, IdleFacts, StartedFacts
  <2>4. /\ file' \in File /\ changed' \in BOOLEAN /\ armedRef' \in BOOLEAN /\ unsaved' \in BOOLEAN
        /\ watcher' \in [at : {"waiting", "loading", "arming"}, armed : BOOLEAN]
    BY <2>1, <1>1, <1>2
  <2>5. DetectorFollowsFile' /\ ArmingIsRead'
    BY <1>9, <2>1, <1>1, <1>2, IdleFacts DEF Transition, ArmFileInv, ArmFileHolds, DetectorFollowsFile, ArmingIsRead
  <2>6. UpToDate(page)' /\ UpToDate(web)' /\ UpToDate(thread)'
    BY <2>1, <1>1, <1>2, IdleFacts, StartedFacts DEF ArmFileInv, UpToDate
  <2> QED BY <1>3, <2>2, <2>3, <2>4, <2>5, <2>6 DEF ArmFileInv, ArmFileHolds
<1>10. ASSUME Load
      PROVE  ArmFileInv'
  <2>1. /\ thread' = [at |-> "saving", copy |-> With(file, "armed", thread.copy["armed"]),
                    means |-> {"armed"}, stale |-> FALSE]
        /\ thread.at = "loading"
        /\ UNCHANGED <<file, changed, page, web, armedRef, watcher, unsaved>>
    BY <1>10, <1>1 DEF Load, webVars, Holding
  <2>2. page' \in Holders /\ web' \in Holders /\ thread' \in Holders
    BY <2>1, <1>1, <1>2, IdleFacts, WithFacts DEF Holders
  <2>3. web'.at # "loading" /\ thread'.means \subseteq {"armed"} /\ page'.means = {}
    BY <2>1, <1>1, <1>2, IdleFacts, WithFacts
  <2>4. /\ file' \in File /\ changed' \in BOOLEAN /\ armedRef' \in BOOLEAN /\ unsaved' \in BOOLEAN
        /\ watcher' \in [at : {"waiting", "loading", "arming"}, armed : BOOLEAN]
    BY <2>1, <1>1, <1>2
  <2>a. /\ thread'.at = "saving" /\ thread'.means = {"armed"}
        /\ \A s \in Settings : s = "armed" \/ thread'.copy[s] = file[s]
    <3> DEFINE copy == With(file, "armed", thread.copy["armed"])
    <3>1. \A s \in Settings : s = "armed" \/ copy[s] = file[s]
      BY <1>1, <1>2, WithFacts
    <3>2. thread' = [at |-> "saving", copy |-> copy, means |-> {"armed"}, stale |-> FALSE]
      BY <2>1
    <3> HIDE DEF copy
    <3> QED BY <3>1, <3>2
  <2>5. DetectorFollowsFile' /\ ArmingIsRead'
    BY <2>1, <2>a DEF ArmFileInv, ArmFileHolds, DetectorFollowsFile, ArmingIsRead
  <2>6. UpToDate(page)' /\ UpToDate(web)' /\ UpToDate(thread)'
    BY <2>1, <2>a DEF ArmFileInv, UpToDate
  <2> QED BY <1>3, <2>2, <2>3, <2>4, <2>5, <2>6 DEF ArmFileInv, ArmFileHolds
<1>11. ASSUME Replace
      PROVE  ArmFileInv'
  <2>1. /\ file' = thread.copy /\ changed' = TRUE /\ thread' = Idle
        /\ page' = Outdated(page) /\ web' = Outdated(web)
        /\ UNCHANGED <<armedRef, watcher, unsaved>>
    BY <1>11, <1>1 DEF Replace
  <2>2. page' \in Holders /\ web' \in Holders /\ thread' \in Holders
    BY <2>1, <1>1, <1>2, IdleFacts, OutdatedFacts DEF Holders
  <2>3. web'.at # "loading" /\ thread'.means \subseteq {"armed"} /\ page'.means = {}
    BY <2>1, <1>1, <1>2, IdleFacts, OutdatedFacts
  <2>4. /\ file' \in File /\ changed' \in BOOLEAN /\ armedRef' \in BOOLEAN /\ unsaved' \in BOOLEAN
        /\ watcher' \in [at : {"waiting", "loading", "arming"}, armed : BOOLEAN]
    BY <2>1, <1>1, <1>2
  <2>5. DetectorFollowsFile' /\ ArmingIsRead'
    BY <1>11, <2>1, <1>1, <1>2, IdleFacts DEF Replace, ArmFileInv, ArmFileHolds, DetectorFollowsFile, ArmingIsRead
  <2>6. UpToDate(page)' /\ UpToDate(web)' /\ UpToDate(thread)'
    BY <2>1, <1>1, <1>2, IdleFacts, OutdatedFacts DEF ArmFileInv, UpToDate
  <2> QED BY <1>3, <2>2, <2>3, <2>4, <2>5, <2>6 DEF ArmFileInv, ArmFileHolds
<1>12. ASSUME WriteFails
      PROVE  ArmFileInv'
  <2>1. /\ thread' = Idle /\ unsaved' = TRUE
        /\ UNCHANGED <<file, changed, page, web, armedRef, watcher>>
    BY <1>12, <1>1 DEF WriteFails, webVars
  <2>2. page' \in Holders /\ web' \in Holders /\ thread' \in Holders
    BY <2>1, <1>1, <1>2, IdleFacts DEF Holders
  <2>3. web'.at # "loading" /\ thread'.means \subseteq {"armed"} /\ page'.means = {}
    BY <2>1, <1>1, <1>2, IdleFacts
  <2>4. /\ file' \in File /\ changed' \in BOOLEAN /\ armedRef' \in BOOLEAN /\ unsaved' \in BOOLEAN
        /\ watcher' \in [at : {"waiting", "loading", "arming"}, armed : BOOLEAN]
    BY <2>1, <1>1, <1>2
  <2>5. DetectorFollowsFile' /\ ArmingIsRead'
    BY <1>12, <2>1, <1>1, <1>2, IdleFacts DEF WriteFails, ArmFileInv, ArmFileHolds, DetectorFollowsFile, ArmingIsRead
  <2>6. UpToDate(page)' /\ UpToDate(web)' /\ UpToDate(thread)'
    BY <2>1, <1>1, <1>2, IdleFacts DEF ArmFileInv, UpToDate
  <2> QED BY <1>3, <2>2, <2>3, <2>4, <2>5, <2>6 DEF ArmFileInv, ArmFileHolds
<1>13. ASSUME Poll
      PROVE  ArmFileInv'
  <2>1. /\ changed' = FALSE /\ watcher' = [watcher EXCEPT !.at = "loading"]
        /\ UNCHANGED <<file, page, web, armedRef, thread, unsaved>>
    BY <1>13, <1>1 DEF Poll, webVars
  <2>2. page' \in Holders /\ web' \in Holders /\ thread' \in Holders
    BY <2>1, <1>1, <1>2, IdleFacts DEF Holders
  <2>3. web'.at # "loading" /\ thread'.means \subseteq {"armed"} /\ page'.means = {}
    BY <2>1, <1>1, <1>2, IdleFacts
  <2>4. /\ file' \in File /\ changed' \in BOOLEAN /\ armedRef' \in BOOLEAN /\ unsaved' \in BOOLEAN
        /\ watcher' \in [at : {"waiting", "loading", "arming"}, armed : BOOLEAN]
    BY <2>1, <1>1, <1>2
  <2>5. DetectorFollowsFile' /\ ArmingIsRead'
    BY <1>13, <2>1, <1>1, <1>2, IdleFacts DEF Poll, ArmFileInv, ArmFileHolds, DetectorFollowsFile, ArmingIsRead
  <2>6. UpToDate(page)' /\ UpToDate(web)' /\ UpToDate(thread)'
    BY <2>1, <1>1, <1>2, IdleFacts DEF ArmFileInv, UpToDate
  <2> QED BY <1>3, <2>2, <2>3, <2>4, <2>5, <2>6 DEF ArmFileInv, ArmFileHolds
<1>14. ASSUME WatcherLoads
      PROVE  ArmFileInv'
  <2>1. /\ watcher' = [at |-> "arming", armed |-> file["armed"]]
        /\ UNCHANGED <<file, changed, page, web, armedRef, thread, unsaved>>
    BY <1>14, <1>1 DEF WatcherLoads, webVars
  <2>2. page' \in Holders /\ web' \in Holders /\ thread' \in Holders
    BY <2>1, <1>1, <1>2, IdleFacts DEF Holders
  <2>3. web'.at # "loading" /\ thread'.means \subseteq {"armed"} /\ page'.means = {}
    BY <2>1, <1>1, <1>2, IdleFacts
  <2>4. /\ file' \in File /\ changed' \in BOOLEAN /\ armedRef' \in BOOLEAN /\ unsaved' \in BOOLEAN
        /\ watcher' \in [at : {"waiting", "loading", "arming"}, armed : BOOLEAN]
    BY <2>1, <1>1, <1>2
  <2>5. DetectorFollowsFile' /\ ArmingIsRead'
    BY <1>14, <2>1, <1>1, <1>2, IdleFacts DEF WatcherLoads, ArmFileInv, ArmFileHolds, DetectorFollowsFile, ArmingIsRead
  <2>6. UpToDate(page)' /\ UpToDate(web)' /\ UpToDate(thread)'
    BY <2>1, <1>1, <1>2, IdleFacts DEF ArmFileInv, UpToDate
  <2> QED BY <1>3, <2>2, <2>3, <2>4, <2>5, <2>6 DEF ArmFileInv, ArmFileHolds
<1>15. ASSUME ReloadArmed
      PROVE  ArmFileInv'
  <2>1. /\ watcher.at = "arming" /\ armedRef' = watcher.armed /\ unsaved' = FALSE
        /\ watcher' = [at |-> "waiting", armed |-> FALSE]
        /\ UNCHANGED <<file, changed, page, web, thread>>
    BY <1>15, <1>1 DEF ReloadArmed, webVars, Watching
  <2>2. page' \in Holders /\ web' \in Holders /\ thread' \in Holders
    BY <2>1, <1>1, <1>2, IdleFacts DEF Holders
  <2>3. web'.at # "loading" /\ thread'.means \subseteq {"armed"} /\ page'.means = {}
    BY <2>1, <1>1, <1>2, IdleFacts
  <2>4. /\ file' \in File /\ changed' \in BOOLEAN /\ armedRef' \in BOOLEAN /\ unsaved' \in BOOLEAN
        /\ watcher' \in [at : {"waiting", "loading", "arming"}, armed : BOOLEAN]
    BY <2>1, <1>1, <1>2
  <2>5. DetectorFollowsFile' /\ ArmingIsRead'
    BY <1>15, <2>1, <1>1, <1>2, IdleFacts DEF ReloadArmed, ArmFileInv, ArmFileHolds, DetectorFollowsFile, ArmingIsRead
  <2>6. UpToDate(page)' /\ UpToDate(web)' /\ UpToDate(thread)'
    BY <2>1, <1>1, <1>2, IdleFacts DEF ArmFileInv, UpToDate
  <2> QED BY <1>3, <2>2, <2>3, <2>4, <2>5, <2>6 DEF ArmFileInv, ArmFileHolds
<1>16. ASSUME DetectorRestarts
      PROVE  ArmFileInv'
  <2>1. /\ armedRef' = file["armed"] /\ changed' = FALSE /\ unsaved' = FALSE
        /\ thread' = Idle /\ watcher' = [at |-> "waiting", armed |-> FALSE]
        /\ UNCHANGED <<file, page, web>>
    BY <1>16, <1>1 DEF DetectorRestarts, webVars, Watching
  <2>2. page' \in Holders /\ web' \in Holders /\ thread' \in Holders
    BY <2>1, <1>1, <1>2, IdleFacts DEF Holders
  <2>3. web'.at # "loading" /\ thread'.means \subseteq {"armed"} /\ page'.means = {}
    BY <2>1, <1>1, <1>2, IdleFacts
  <2>4. /\ file' \in File /\ changed' \in BOOLEAN /\ armedRef' \in BOOLEAN /\ unsaved' \in BOOLEAN
        /\ watcher' \in [at : {"waiting", "loading", "arming"}, armed : BOOLEAN]
    BY <2>1, <1>1, <1>2
  <2>5. DetectorFollowsFile' /\ ArmingIsRead'
    BY <1>16, <2>1, <1>1, <1>2, IdleFacts DEF DetectorRestarts, ArmFileInv, ArmFileHolds, DetectorFollowsFile, ArmingIsRead
  <2>6. UpToDate(page)' /\ UpToDate(web)' /\ UpToDate(thread)'
    BY <2>1, <1>1, <1>2, IdleFacts DEF ArmFileInv, UpToDate
  <2> QED BY <1>3, <2>2, <2>3, <2>4, <2>5, <2>6 DEF ArmFileInv, ArmFileHolds
<1>17. ASSUME UNCHANGED fileVars
      PROVE  ArmFileInv'
  <2>1. /\ UNCHANGED <<file, changed, page, web, armedRef, thread, watcher, unsaved>>
    BY <1>17, <1>1 DEF fileVars
  <2>2. page' \in Holders /\ web' \in Holders /\ thread' \in Holders
    BY <2>1, <1>1, <1>2, IdleFacts DEF Holders
  <2>3. web'.at # "loading" /\ thread'.means \subseteq {"armed"} /\ page'.means = {}
    BY <2>1, <1>1, <1>2, IdleFacts
  <2>4. /\ file' \in File /\ changed' \in BOOLEAN /\ armedRef' \in BOOLEAN /\ unsaved' \in BOOLEAN
        /\ watcher' \in [at : {"waiting", "loading", "arming"}, armed : BOOLEAN]
    BY <2>1, <1>1, <1>2
  <2>5. DetectorFollowsFile' /\ ArmingIsRead'
    BY <1>17, <2>1, <1>1, <1>2, IdleFacts DEF fileVars, ArmFileInv, ArmFileHolds, DetectorFollowsFile, ArmingIsRead
  <2>6. UpToDate(page)' /\ UpToDate(web)' /\ UpToDate(thread)'
    BY <2>1, <1>1, <1>2, IdleFacts DEF ArmFileInv, UpToDate
  <2> QED BY <1>3, <2>2, <2>3, <2>4, <2>5, <2>6 DEF ArmFileInv, ArmFileHolds
<1> QED BY <1>4, <1>5, <1>6, <1>7, <1>8, <1>9, <1>10, <1>11, <1>12, <1>13, <1>14, <1>15, <1>16, <1>17 DEF ArmFileNext

LEMMA ArmFileInvHolds == ArmFileSpec => []ArmFileInv
<1>1. ArmFileInit => ArmFileInv
  <2> SUFFICES ASSUME ArmFileInit PROVE ArmFileInv
    OBVIOUS
  <2> USE IdleFacts DEF ArmFileInit
  <2>1. file \in File /\ armedRef \in BOOLEAN /\ armedRef = file["armed"]
    BY DEF File, Settings
  <2>2. ArmFileTypeOK
    BY <2>1, ArmFileTypes DEF Watching
  <2>3. DetectorFollowsFile /\ ArmingIsRead
    BY <2>1 DEF DetectorFollowsFile, ArmingIsRead, Watching
  <2>4. UpToDate(page) /\ UpToDate(web) /\ UpToDate(thread) /\ page.means = {}
    BY DEF UpToDate
  <2> QED BY <2>2, <2>3, <2>4 DEF ArmFileInv, ArmFileHolds
<1>2. ArmFileInv /\ [ArmFileNext]_fileVars => ArmFileInv'
  BY ArmFileStep
<1> QED BY <1>1, <1>2, PTL DEF ArmFileSpec

\* Two processes and three threads write and read the flag in any order, fail and
\* restart: at rest the cameras obey what the file says.
THEOREM ArmFileIsCorrect == ArmFileSpec => []ArmFileHolds
BY ArmFileInvHolds, PTL DEF ArmFileInv

\* Whoever saves the file changes by it only what he means to, unless the file was
\* replaced after he had read it.
THEOREM OnlyRacesUndoHolds == ArmFileSpec => OnlyRacesUndo
<1>1. ASSUME ArmFileInv, [ArmFileNext]_fileVars, NEW s \in Settings, file'[s] # file[s]
      PROVE  \/ web.at = "saving" /\ web' = Idle /\ (web.stale \/ s \in web.means)
             \/ thread.at = "saving" /\ thread' = Idle /\ (thread.stale \/ s \in thread.means)
  <2>1. WebSaves \/ Replace
    BY <1>1 DEF ArmFileNext, fileVars, WebLoads, OpenForm, SubmitForm, WebFileCrash, Transition, Load,
                WriteFails, Poll, WatcherLoads, ReloadArmed, DetectorRestarts
  <2> QED BY <1>1, <2>1 DEF WebSaves, Replace, ArmFileInv, UpToDate
<1>2. ArmFileInv /\ [ArmFileNext]_fileVars =>
          [\A s \in Settings : file'[s] # file[s] =>
              \/ web.at = "saving" /\ web' = Idle /\ (web.stale \/ s \in web.means)
              \/ thread.at = "saving" /\ thread' = Idle /\ (thread.stale \/ s \in thread.means)]_fileVars
  BY <1>1
<1> QED BY <1>2, ArmFileInvHolds, PTL DEF ArmFileSpec, OnlyRacesUndo

-----------------------------------------------------------------------------
(* The configuration store.                                                *)

StoreTyped ==
    /\ backups \in Seq(ConfigFile) /\ made \cup failed \subseteq 0 .. writes
    /\ watch.last <= writes /\ watch.seen <= writes

\* A backup's time is one that was backed up; and a file whose time the thread
\* remembers, or is about to, has a backup or none could be made.
BackupsAgree ==
    /\ \A i \in 1 .. Len(backups) : backups[i].mtime \in made
    /\ config.mtime = watch.last => config.mtime \in made \cup failed
    /\ watch.at = "remembering" /\ config.mtime = watch.seen => config.mtime \in made \cup failed

\* The cached configuration is the one of the time that is remembered for it, or
\* in the middle of a save the one just written.
CacheAgrees ==
    /\ saving => ~cache.fresh
    /\ ~overtaken => cache.cfg.mtime = IF saving THEN config.mtime ELSE cache.mtime

StoreInv == ConfigTypeOK /\ StoreTyped /\ BackupsAgree /\ CacheAgrees

LEMMA BackedFacts ==
    ASSUME ConfigAssumption, NEW f \in ConfigFile, backups \in Seq(ConfigFile), Len(backups) <= MaxBackups
    PROVE  /\ Backed(f) \in Seq(ConfigFile) /\ Len(Backed(f)) <= MaxBackups
           /\ \A i \in 1 .. Len(Backed(f)) :
                 Backed(f)[i] = f \/ \E j \in 1 .. Len(backups) : Backed(f)[i] = backups[j]
<1> DEFINE all == Append(backups, f)
<1>1. /\ all \in Seq(ConfigFile) /\ Len(all) = Len(backups) + 1 /\ all # <<>>
      /\ \A i \in 1 .. Len(all) : all[i] = f \/ \E j \in 1 .. Len(backups) : all[i] = backups[j]
  OBVIOUS
<1>2. CASE Len(all) > MaxBackups
  <2>1. Backed(f) = Tail(all)
    BY <1>2 DEF Backed
  <2>2. /\ Tail(all) \in Seq(ConfigFile) /\ Len(Tail(all)) = Len(all) - 1
        /\ \A i \in 1 .. Len(Tail(all)) : Tail(all)[i] = all[i + 1]
    BY <1>1
  <2> QED BY <1>1, <2>1, <2>2
<1>3. CASE ~(Len(all) > MaxBackups)
  BY <1>1, <1>3 DEF Backed, ConfigAssumption
<1> QED BY <1>2, <1>3

LEMMA StoreStep == ASSUME ConfigAssumption, StoreInv, [ConfigNext]_configVars PROVE StoreInv'
<1>0. ConfigTypeOK /\ StoreTyped /\ BackupsAgree /\ CacheAgrees /\ MaxWrites \in Nat
  BY DEF StoreInv, ConfigAssumption
<1>b. Backed(config) \in Seq(ConfigFile) /\ Len(Backed(config)) <= MaxBackups
      /\ \A i \in 1 .. Len(Backed(config)) :
            Backed(config)[i].mtime = config.mtime \/ Backed(config)[i].mtime \in made
  <2>1. config \in ConfigFile /\ backups \in Seq(ConfigFile) /\ Len(backups) <= MaxBackups
    BY <1>0 DEF ConfigTypeOK, StoreTyped
  <2>2. /\ Backed(config) \in Seq(ConfigFile) /\ Len(Backed(config)) <= MaxBackups
        /\ \A i \in 1 .. Len(Backed(config)) :
              \/ Backed(config)[i] = config
              \/ \E j \in 1 .. Len(backups) : Backed(config)[i] = backups[j]
    BY <2>1, BackedFacts
  <2> QED BY <1>0, <2>2 DEF BackupsAgree
<1>c. config.mtime \in Nat /\ writes \in Nat /\ config.mtime <= writes /\ writes <= MaxWrites
  BY <1>0 DEF ConfigTypeOK, ConfigFile
<1>1. ASSUME Save PROVE StoreInv'
  <2> USE <1>1, <1>0, <1>b, <1>c DEF Save, Sealed, backupVars
  <2>1. ConfigTypeOK'
    <3>1. config' \in ConfigFile /\ writes' \in config'.mtime .. MaxWrites
      BY DEF ConfigTypeOK, StoreTyped, BackupsAgree, ConfigFile
    <3>2. cache' \in [cfg : ConfigFile, mtime : 0 .. MaxWrites, fresh : BOOLEAN]
      BY <3>1 DEF ConfigTypeOK, ConfigFile
    <3>3. saving' \in BOOLEAN /\ overtaken' \in BOOLEAN /\ refused' \in BOOLEAN
      BY DEF ConfigTypeOK
    <3>4. Len(backups') <= MaxBackups /\ \A j \in DOMAIN backups' : backups'[j] \in ConfigFile
      BY DEF ConfigTypeOK
    <3>5. watch' \in [at : {"polling", "debouncing", "copying", "remembering"},
                     last : 0 .. MaxWrites, seen : 0 .. MaxWrites]
      BY <3>1 DEF ConfigTypeOK, ConfigFile
    <3>6. made' \cup failed' \subseteq 0 .. MaxWrites
      BY <3>1 DEF ConfigTypeOK, ConfigFile
    <3> QED BY <3>1, <3>2, <3>3, <3>4, <3>5, <3>6 DEF ConfigTypeOK
  <2>2. StoreTyped'
    <3>1. backups' \in Seq(ConfigFile)
      BY DEF StoreTyped
    <3>2. made' \cup failed' \subseteq 0 .. writes'
      BY DEF StoreTyped
    <3>3. watch'.last <= writes' /\ watch'.seen <= writes'
      BY DEF StoreTyped, ConfigTypeOK
    <3> QED BY <3>1, <3>2, <3>3 DEF StoreTyped
  <2>3. BackupsAgree'
    BY DEF BackupsAgree, StoreTyped, ConfigTypeOK
  <2>4. CacheAgrees'
    BY DEF CacheAgrees, ConfigTypeOK
  <2> QED BY <2>1, <2>2, <2>3, <2>4 DEF StoreInv
<1>2. ASSUME SaveRemembers PROVE StoreInv'
  <2> USE <1>2, <1>0, <1>b, <1>c DEF SaveRemembers, backupVars
  <2>1. ConfigTypeOK'
    <3>1. config' \in ConfigFile /\ writes' \in config'.mtime .. MaxWrites
      BY DEF ConfigTypeOK, StoreTyped, BackupsAgree, ConfigFile
    <3>2. cache' \in [cfg : ConfigFile, mtime : 0 .. MaxWrites, fresh : BOOLEAN]
      BY <3>1 DEF ConfigTypeOK, ConfigFile
    <3>3. saving' \in BOOLEAN /\ overtaken' \in BOOLEAN /\ refused' \in BOOLEAN
      BY DEF ConfigTypeOK
    <3>4. Len(backups') <= MaxBackups /\ \A j \in DOMAIN backups' : backups'[j] \in ConfigFile
      BY DEF ConfigTypeOK
    <3>5. watch' \in [at : {"polling", "debouncing", "copying", "remembering"},
                     last : 0 .. MaxWrites, seen : 0 .. MaxWrites]
      BY <3>1 DEF ConfigTypeOK, ConfigFile
    <3>6. made' \cup failed' \subseteq 0 .. MaxWrites
      BY <3>1 DEF ConfigTypeOK, ConfigFile
    <3> QED BY <3>1, <3>2, <3>3, <3>4, <3>5, <3>6 DEF ConfigTypeOK
  <2>2. StoreTyped'
    <3>1. backups' \in Seq(ConfigFile)
      BY DEF StoreTyped
    <3>2. made' \cup failed' \subseteq 0 .. writes'
      BY DEF StoreTyped
    <3>3. watch'.last <= writes' /\ watch'.seen <= writes'
      BY DEF StoreTyped, ConfigTypeOK
    <3> QED BY <3>1, <3>2, <3>3 DEF StoreTyped
  <2>3. BackupsAgree'
    BY DEF BackupsAgree, StoreTyped, ConfigTypeOK
  <2>4. CacheAgrees'
    BY DEF CacheAgrees, ConfigTypeOK
  <2> QED BY <2>1, <2>2, <2>3, <2>4 DEF StoreInv
<1>3. ASSUME LoadCached PROVE StoreInv'
  <2> USE <1>3, <1>0, <1>b, <1>c DEF LoadCached, Loaded, backupVars
  <2>1. ConfigTypeOK'
    <3>1. config' \in ConfigFile /\ writes' \in config'.mtime .. MaxWrites
      BY DEF ConfigTypeOK, StoreTyped, BackupsAgree, ConfigFile
    <3>2. cache' \in [cfg : ConfigFile, mtime : 0 .. MaxWrites, fresh : BOOLEAN]
      BY <3>1 DEF ConfigTypeOK, ConfigFile
    <3>3. saving' \in BOOLEAN /\ overtaken' \in BOOLEAN /\ refused' \in BOOLEAN
      BY DEF ConfigTypeOK
    <3>4. Len(backups') <= MaxBackups /\ \A j \in DOMAIN backups' : backups'[j] \in ConfigFile
      BY DEF ConfigTypeOK
    <3>5. watch' \in [at : {"polling", "debouncing", "copying", "remembering"},
                     last : 0 .. MaxWrites, seen : 0 .. MaxWrites]
      BY <3>1 DEF ConfigTypeOK, ConfigFile
    <3>6. made' \cup failed' \subseteq 0 .. MaxWrites
      BY <3>1 DEF ConfigTypeOK, ConfigFile
    <3> QED BY <3>1, <3>2, <3>3, <3>4, <3>5, <3>6 DEF ConfigTypeOK
  <2>2. StoreTyped'
    <3>1. backups' \in Seq(ConfigFile)
      BY DEF StoreTyped
    <3>2. made' \cup failed' \subseteq 0 .. writes'
      BY DEF StoreTyped
    <3>3. watch'.last <= writes' /\ watch'.seen <= writes'
      BY DEF StoreTyped, ConfigTypeOK
    <3> QED BY <3>1, <3>2, <3>3 DEF StoreTyped
  <2>3. BackupsAgree'
    BY DEF BackupsAgree, StoreTyped, ConfigTypeOK
  <2>4. CacheAgrees'
    <3>1. Loaded(config).mtime = config.mtime
      BY DEF ConfigTypeOK, ConfigFile
    <3>2. cache'.cfg.mtime = config.mtime /\ cache'.mtime = config.mtime /\ ~saving'
      BY <3>1
    <3> QED BY <3>2 DEF CacheAgrees
  <2> QED BY <2>1, <2>2, <2>3, <2>4 DEF StoreInv
<1>4. ASSUME TtlPasses PROVE StoreInv'
  <2> USE <1>4, <1>0, <1>b, <1>c DEF TtlPasses, backupVars
  <2>1. ConfigTypeOK'
    <3>1. config' \in ConfigFile /\ writes' \in config'.mtime .. MaxWrites
      BY DEF ConfigTypeOK, StoreTyped, BackupsAgree, ConfigFile
    <3>2. cache' \in [cfg : ConfigFile, mtime : 0 .. MaxWrites, fresh : BOOLEAN]
      BY <3>1 DEF ConfigTypeOK, ConfigFile
    <3>3. saving' \in BOOLEAN /\ overtaken' \in BOOLEAN /\ refused' \in BOOLEAN
      BY DEF ConfigTypeOK
    <3>4. Len(backups') <= MaxBackups /\ \A j \in DOMAIN backups' : backups'[j] \in ConfigFile
      BY DEF ConfigTypeOK
    <3>5. watch' \in [at : {"polling", "debouncing", "copying", "remembering"},
                     last : 0 .. MaxWrites, seen : 0 .. MaxWrites]
      BY <3>1 DEF ConfigTypeOK, ConfigFile
    <3>6. made' \cup failed' \subseteq 0 .. MaxWrites
      BY <3>1 DEF ConfigTypeOK, ConfigFile
    <3> QED BY <3>1, <3>2, <3>3, <3>4, <3>5, <3>6 DEF ConfigTypeOK
  <2>2. StoreTyped'
    <3>1. backups' \in Seq(ConfigFile)
      BY DEF StoreTyped
    <3>2. made' \cup failed' \subseteq 0 .. writes'
      BY DEF StoreTyped
    <3>3. watch'.last <= writes' /\ watch'.seen <= writes'
      BY DEF StoreTyped, ConfigTypeOK
    <3> QED BY <3>1, <3>2, <3>3 DEF StoreTyped
  <2>3. BackupsAgree'
    BY DEF BackupsAgree, StoreTyped, ConfigTypeOK
  <2>4. CacheAgrees'
    BY DEF CacheAgrees, ConfigTypeOK
  <2> QED BY <2>1, <2>2, <2>3, <2>4 DEF StoreInv
<1>5. ASSUME NEW sec \in {"plain", "sealed"}, OtherWrites(sec) PROVE StoreInv'
  <2> USE <1>5, <1>0, <1>b, <1>c DEF OtherWrites, backupVars
  <2>1. ConfigTypeOK'
    <3>1. config' \in ConfigFile /\ writes' \in config'.mtime .. MaxWrites
      BY DEF ConfigTypeOK, StoreTyped, BackupsAgree, ConfigFile
    <3>2. cache' \in [cfg : ConfigFile, mtime : 0 .. MaxWrites, fresh : BOOLEAN]
      BY <3>1 DEF ConfigTypeOK, ConfigFile
    <3>3. saving' \in BOOLEAN /\ overtaken' \in BOOLEAN /\ refused' \in BOOLEAN
      BY DEF ConfigTypeOK
    <3>4. Len(backups') <= MaxBackups /\ \A j \in DOMAIN backups' : backups'[j] \in ConfigFile
      BY DEF ConfigTypeOK
    <3>5. watch' \in [at : {"polling", "debouncing", "copying", "remembering"},
                     last : 0 .. MaxWrites, seen : 0 .. MaxWrites]
      BY <3>1 DEF ConfigTypeOK, ConfigFile
    <3>6. made' \cup failed' \subseteq 0 .. MaxWrites
      BY <3>1 DEF ConfigTypeOK, ConfigFile
    <3> QED BY <3>1, <3>2, <3>3, <3>4, <3>5, <3>6 DEF ConfigTypeOK
  <2>2. StoreTyped'
    <3>1. backups' \in Seq(ConfigFile)
      BY DEF StoreTyped
    <3>2. made' \cup failed' \subseteq 0 .. writes'
      BY DEF StoreTyped
    <3>3. watch'.last <= writes' /\ watch'.seen <= writes'
      BY DEF StoreTyped, ConfigTypeOK
    <3> QED BY <3>1, <3>2, <3>3 DEF StoreTyped
  <2>3. BackupsAgree'
    BY DEF BackupsAgree, StoreTyped, ConfigTypeOK
  <2>4. CacheAgrees'
    BY DEF CacheAgrees, ConfigTypeOK
  <2> QED BY <2>1, <2>2, <2>3, <2>4 DEF StoreInv
<1>6. ASSUME CreateBackup PROVE StoreInv'
  <2> USE <1>6, <1>0, <1>b, <1>c DEF CreateBackup, BackUp, storeVars
  <2>1. ConfigTypeOK'
    <3>1. config' \in ConfigFile /\ writes' \in config'.mtime .. MaxWrites
      BY DEF ConfigTypeOK, StoreTyped, BackupsAgree, ConfigFile
    <3>2. cache' \in [cfg : ConfigFile, mtime : 0 .. MaxWrites, fresh : BOOLEAN]
      BY <3>1 DEF ConfigTypeOK, ConfigFile
    <3>3. saving' \in BOOLEAN /\ overtaken' \in BOOLEAN /\ refused' \in BOOLEAN
      BY DEF ConfigTypeOK
    <3>4. Len(backups') <= MaxBackups /\ \A j \in DOMAIN backups' : backups'[j] \in ConfigFile
      BY DEF ConfigTypeOK
    <3>5. watch' \in [at : {"polling", "debouncing", "copying", "remembering"},
                     last : 0 .. MaxWrites, seen : 0 .. MaxWrites]
      BY <3>1 DEF ConfigTypeOK, ConfigFile
    <3>6. made' \cup failed' \subseteq 0 .. MaxWrites
      BY <3>1 DEF ConfigTypeOK, ConfigFile
    <3> QED BY <3>1, <3>2, <3>3, <3>4, <3>5, <3>6 DEF ConfigTypeOK
  <2>2. StoreTyped'
    <3>1. backups' \in Seq(ConfigFile)
      BY DEF StoreTyped
    <3>2. made' \cup failed' \subseteq 0 .. writes'
      BY DEF StoreTyped
    <3>3. watch'.last <= writes' /\ watch'.seen <= writes'
      BY DEF StoreTyped, ConfigTypeOK
    <3> QED BY <3>1, <3>2, <3>3 DEF StoreTyped
  <2>3. BackupsAgree'
    BY DEF BackupsAgree, StoreTyped, ConfigTypeOK
  <2>4. CacheAgrees'
    BY DEF CacheAgrees, ConfigTypeOK
  <2> QED BY <2>1, <2>2, <2>3, <2>4 DEF StoreInv
<1>7. ASSUME NEW i \in DOMAIN backups, Restore(i) PROVE StoreInv'
  <2> USE <1>7, <1>0, <1>b, <1>c DEF Restore
  <2>1. ConfigTypeOK'
    <3>1. config' \in ConfigFile /\ writes' \in config'.mtime .. MaxWrites
      BY SMTT(20) DEF ConfigTypeOK, StoreTyped, BackupsAgree, ConfigFile
    <3>2. cache' \in [cfg : ConfigFile, mtime : 0 .. MaxWrites, fresh : BOOLEAN]
      BY <3>1 DEF ConfigTypeOK, ConfigFile
    <3>3. saving' \in BOOLEAN /\ overtaken' \in BOOLEAN /\ refused' \in BOOLEAN
      BY DEF ConfigTypeOK
    <3>4. Len(backups') <= MaxBackups /\ \A j \in DOMAIN backups' : backups'[j] \in ConfigFile
      BY DEF ConfigTypeOK
    <3>5. watch' \in [at : {"polling", "debouncing", "copying", "remembering"},
                     last : 0 .. MaxWrites, seen : 0 .. MaxWrites]
      BY <3>1 DEF ConfigTypeOK, ConfigFile
    <3>6. made' \cup failed' \subseteq 0 .. MaxWrites
      BY <3>1 DEF ConfigTypeOK, ConfigFile
    <3> QED BY <3>1, <3>2, <3>3, <3>4, <3>5, <3>6 DEF ConfigTypeOK
  <2>2. StoreTyped'
    <3>1. backups' \in Seq(ConfigFile)
      BY DEF StoreTyped
    <3>2. made' \cup failed' \subseteq 0 .. writes'
      BY DEF StoreTyped
    <3>3. watch'.last <= writes' /\ watch'.seen <= writes'
      BY DEF StoreTyped, ConfigTypeOK
    <3> QED BY <3>1, <3>2, <3>3 DEF StoreTyped
  <2>3. BackupsAgree'
    BY SMTT(20) DEF BackupsAgree, StoreTyped, ConfigTypeOK
  <2>4. CacheAgrees'
    BY DEF CacheAgrees, ConfigTypeOK
  <2> QED BY <2>1, <2>2, <2>3, <2>4 DEF StoreInv
<1>8. ASSUME WatchPoll PROVE StoreInv'
  <2> USE <1>8, <1>0, <1>b, <1>c DEF WatchPoll, storeVars, backupVars
  <2>1. ConfigTypeOK'
    <3>1. config' \in ConfigFile /\ writes' \in config'.mtime .. MaxWrites
      BY DEF ConfigTypeOK, StoreTyped, BackupsAgree, ConfigFile
    <3>2. cache' \in [cfg : ConfigFile, mtime : 0 .. MaxWrites, fresh : BOOLEAN]
      BY <3>1 DEF ConfigTypeOK, ConfigFile
    <3>3. saving' \in BOOLEAN /\ overtaken' \in BOOLEAN /\ refused' \in BOOLEAN
      BY DEF ConfigTypeOK
    <3>4. Len(backups') <= MaxBackups /\ \A j \in DOMAIN backups' : backups'[j] \in ConfigFile
      BY DEF ConfigTypeOK
    <3>5. watch' \in [at : {"polling", "debouncing", "copying", "remembering"},
                     last : 0 .. MaxWrites, seen : 0 .. MaxWrites]
      BY <3>1 DEF ConfigTypeOK, ConfigFile
    <3>6. made' \cup failed' \subseteq 0 .. MaxWrites
      BY <3>1 DEF ConfigTypeOK, ConfigFile
    <3> QED BY <3>1, <3>2, <3>3, <3>4, <3>5, <3>6 DEF ConfigTypeOK
  <2>2. StoreTyped'
    <3>1. backups' \in Seq(ConfigFile)
      BY DEF StoreTyped
    <3>2. made' \cup failed' \subseteq 0 .. writes'
      BY DEF StoreTyped
    <3>3. watch'.last <= writes' /\ watch'.seen <= writes'
      BY DEF StoreTyped, ConfigTypeOK
    <3> QED BY <3>1, <3>2, <3>3 DEF StoreTyped
  <2>3. BackupsAgree'
    BY DEF BackupsAgree, StoreTyped, ConfigTypeOK
  <2>4. CacheAgrees'
    BY DEF CacheAgrees, ConfigTypeOK
  <2> QED BY <2>1, <2>2, <2>3, <2>4 DEF StoreInv
<1>9. ASSUME Debounced PROVE StoreInv'
  <2> USE <1>9, <1>0, <1>b, <1>c DEF Debounced, storeVars, backupVars
  <2>1. ConfigTypeOK'
    <3>1. config' \in ConfigFile /\ writes' \in config'.mtime .. MaxWrites
      BY DEF ConfigTypeOK, StoreTyped, BackupsAgree, ConfigFile
    <3>2. cache' \in [cfg : ConfigFile, mtime : 0 .. MaxWrites, fresh : BOOLEAN]
      BY <3>1 DEF ConfigTypeOK, ConfigFile
    <3>3. saving' \in BOOLEAN /\ overtaken' \in BOOLEAN /\ refused' \in BOOLEAN
      BY DEF ConfigTypeOK
    <3>4. Len(backups') <= MaxBackups /\ \A j \in DOMAIN backups' : backups'[j] \in ConfigFile
      BY DEF ConfigTypeOK
    <3>5. watch' \in [at : {"polling", "debouncing", "copying", "remembering"},
                     last : 0 .. MaxWrites, seen : 0 .. MaxWrites]
      BY <3>1 DEF ConfigTypeOK, ConfigFile
    <3>6. made' \cup failed' \subseteq 0 .. MaxWrites
      BY <3>1 DEF ConfigTypeOK, ConfigFile
    <3> QED BY <3>1, <3>2, <3>3, <3>4, <3>5, <3>6 DEF ConfigTypeOK
  <2>2. StoreTyped'
    <3>1. backups' \in Seq(ConfigFile)
      BY DEF StoreTyped
    <3>2. made' \cup failed' \subseteq 0 .. writes'
      BY DEF StoreTyped
    <3>3. watch'.last <= writes' /\ watch'.seen <= writes'
      BY DEF StoreTyped, ConfigTypeOK
    <3> QED BY <3>1, <3>2, <3>3 DEF StoreTyped
  <2>3. BackupsAgree'
    BY DEF BackupsAgree, StoreTyped, ConfigTypeOK
  <2>4. CacheAgrees'
    BY DEF CacheAgrees, ConfigTypeOK
  <2> QED BY <2>1, <2>2, <2>3, <2>4 DEF StoreInv
<1>10. ASSUME WatchCopies PROVE StoreInv'
  <2> USE <1>10, <1>0, <1>b, <1>c DEF WatchCopies, BackUp, storeVars
  <2>1. ConfigTypeOK'
    <3>1. config' \in ConfigFile /\ writes' \in config'.mtime .. MaxWrites
      BY DEF ConfigTypeOK, StoreTyped, BackupsAgree, ConfigFile
    <3>2. cache' \in [cfg : ConfigFile, mtime : 0 .. MaxWrites, fresh : BOOLEAN]
      BY <3>1 DEF ConfigTypeOK, ConfigFile
    <3>3. saving' \in BOOLEAN /\ overtaken' \in BOOLEAN /\ refused' \in BOOLEAN
      BY DEF ConfigTypeOK
    <3>4. Len(backups') <= MaxBackups /\ \A j \in DOMAIN backups' : backups'[j] \in ConfigFile
      BY DEF ConfigTypeOK
    <3>5. watch' \in [at : {"polling", "debouncing", "copying", "remembering"},
                     last : 0 .. MaxWrites, seen : 0 .. MaxWrites]
      BY <3>1 DEF ConfigTypeOK, ConfigFile
    <3>6. made' \cup failed' \subseteq 0 .. MaxWrites
      BY <3>1 DEF ConfigTypeOK, ConfigFile
    <3> QED BY <3>1, <3>2, <3>3, <3>4, <3>5, <3>6 DEF ConfigTypeOK
  <2>2. StoreTyped'
    <3>1. backups' \in Seq(ConfigFile)
      BY DEF StoreTyped
    <3>2. made' \cup failed' \subseteq 0 .. writes'
      BY DEF StoreTyped
    <3>3. watch'.last <= writes' /\ watch'.seen <= writes'
      BY DEF StoreTyped, ConfigTypeOK
    <3> QED BY <3>1, <3>2, <3>3 DEF StoreTyped
  <2>3. BackupsAgree'
    BY DEF BackupsAgree, StoreTyped, ConfigTypeOK
  <2>4. CacheAgrees'
    BY DEF CacheAgrees, ConfigTypeOK
  <2> QED BY <2>1, <2>2, <2>3, <2>4 DEF StoreInv
<1>11. ASSUME WatchRemembers PROVE StoreInv'
  <2> USE <1>11, <1>0, <1>b, <1>c DEF WatchRemembers, Polling, storeVars, backupVars
  <2>1. ConfigTypeOK'
    <3>1. config' \in ConfigFile /\ writes' \in config'.mtime .. MaxWrites
      BY DEF ConfigTypeOK, StoreTyped, BackupsAgree, ConfigFile
    <3>2. cache' \in [cfg : ConfigFile, mtime : 0 .. MaxWrites, fresh : BOOLEAN]
      BY <3>1 DEF ConfigTypeOK, ConfigFile
    <3>3. saving' \in BOOLEAN /\ overtaken' \in BOOLEAN /\ refused' \in BOOLEAN
      BY DEF ConfigTypeOK
    <3>4. Len(backups') <= MaxBackups /\ \A j \in DOMAIN backups' : backups'[j] \in ConfigFile
      BY DEF ConfigTypeOK
    <3>5. watch' \in [at : {"polling", "debouncing", "copying", "remembering"},
                     last : 0 .. MaxWrites, seen : 0 .. MaxWrites]
      BY <3>1 DEF ConfigTypeOK, ConfigFile
    <3>6. made' \cup failed' \subseteq 0 .. MaxWrites
      BY <3>1 DEF ConfigTypeOK, ConfigFile
    <3> QED BY <3>1, <3>2, <3>3, <3>4, <3>5, <3>6 DEF ConfigTypeOK
  <2>2. StoreTyped'
    <3>1. backups' \in Seq(ConfigFile)
      BY DEF StoreTyped
    <3>2. made' \cup failed' \subseteq 0 .. writes'
      BY DEF StoreTyped
    <3>3. watch'.last <= writes' /\ watch'.seen <= writes'
      BY DEF StoreTyped, ConfigTypeOK
    <3> QED BY <3>1, <3>2, <3>3 DEF StoreTyped
  <2>3. BackupsAgree'
    BY DEF BackupsAgree, StoreTyped, ConfigTypeOK
  <2>4. CacheAgrees'
    BY DEF CacheAgrees, ConfigTypeOK
  <2> QED BY <2>1, <2>2, <2>3, <2>4 DEF StoreInv
<1>12. ASSUME WebRestarts PROVE StoreInv'
  <2> USE <1>12, <1>0, <1>b, <1>c DEF WebRestarts, Sealed, Polling
  <2>1. ConfigTypeOK'
    <3>1. config' \in ConfigFile /\ writes' \in config'.mtime .. MaxWrites
      BY DEF ConfigTypeOK, StoreTyped, BackupsAgree, ConfigFile
    <3>2. cache' \in [cfg : ConfigFile, mtime : 0 .. MaxWrites, fresh : BOOLEAN]
      BY <3>1 DEF ConfigTypeOK, ConfigFile
    <3>3. saving' \in BOOLEAN /\ overtaken' \in BOOLEAN /\ refused' \in BOOLEAN
      BY DEF ConfigTypeOK
    <3>4. Len(backups') <= MaxBackups /\ \A j \in DOMAIN backups' : backups'[j] \in ConfigFile
      BY DEF ConfigTypeOK
    <3>5. watch' \in [at : {"polling", "debouncing", "copying", "remembering"},
                     last : 0 .. MaxWrites, seen : 0 .. MaxWrites]
      BY <3>1 DEF ConfigTypeOK, ConfigFile
    <3>6. made' \cup failed' \subseteq 0 .. MaxWrites
      BY <3>1 DEF ConfigTypeOK, ConfigFile
    <3> QED BY <3>1, <3>2, <3>3, <3>4, <3>5, <3>6 DEF ConfigTypeOK
  <2>2. StoreTyped'
    <3>1. backups' \in Seq(ConfigFile)
      BY DEF StoreTyped
    <3>2. made' \cup failed' \subseteq 0 .. writes'
      BY DEF StoreTyped
    <3>3. watch'.last <= writes' /\ watch'.seen <= writes'
      BY DEF StoreTyped, ConfigTypeOK
    <3> QED BY <3>1, <3>2, <3>3 DEF StoreTyped
  <2>3. BackupsAgree'
    BY DEF BackupsAgree, StoreTyped, ConfigTypeOK
  <2>4. CacheAgrees'
    BY DEF CacheAgrees, ConfigTypeOK
  <2> QED BY <2>1, <2>2, <2>3, <2>4 DEF StoreInv
<1>13. ASSUME UNCHANGED configVars PROVE StoreInv'
  <2> USE <1>13, <1>0, <1>b, <1>c DEF configVars
  <2>1. ConfigTypeOK'
    <3>1. config' \in ConfigFile /\ writes' \in config'.mtime .. MaxWrites
      BY DEF ConfigTypeOK, StoreTyped, BackupsAgree, ConfigFile
    <3>2. cache' \in [cfg : ConfigFile, mtime : 0 .. MaxWrites, fresh : BOOLEAN]
      BY <3>1 DEF ConfigTypeOK, ConfigFile
    <3>3. saving' \in BOOLEAN /\ overtaken' \in BOOLEAN /\ refused' \in BOOLEAN
      BY DEF ConfigTypeOK
    <3>4. Len(backups') <= MaxBackups /\ \A j \in DOMAIN backups' : backups'[j] \in ConfigFile
      BY DEF ConfigTypeOK
    <3>5. watch' \in [at : {"polling", "debouncing", "copying", "remembering"},
                     last : 0 .. MaxWrites, seen : 0 .. MaxWrites]
      BY <3>1 DEF ConfigTypeOK, ConfigFile
    <3>6. made' \cup failed' \subseteq 0 .. MaxWrites
      BY <3>1 DEF ConfigTypeOK, ConfigFile
    <3> QED BY <3>1, <3>2, <3>3, <3>4, <3>5, <3>6 DEF ConfigTypeOK
  <2>2. StoreTyped'
    <3>1. backups' \in Seq(ConfigFile)
      BY DEF StoreTyped
    <3>2. made' \cup failed' \subseteq 0 .. writes'
      BY DEF StoreTyped
    <3>3. watch'.last <= writes' /\ watch'.seen <= writes'
      BY DEF StoreTyped, ConfigTypeOK
    <3> QED BY <3>1, <3>2, <3>3 DEF StoreTyped
  <2>3. BackupsAgree'
    BY DEF BackupsAgree, StoreTyped, ConfigTypeOK
  <2>4. CacheAgrees'
    BY DEF CacheAgrees, ConfigTypeOK
  <2> QED BY <2>1, <2>2, <2>3, <2>4 DEF StoreInv
<1> QED BY <1>1, <1>2, <1>3, <1>4, <1>5, <1>6, <1>7, <1>8, <1>9, <1>10, <1>11, <1>12, <1>13 DEF ConfigNext

\* Saves, other writers, the backup thread and restores in any order: a file the
\* thread has come to rest on is backed up, and the cache answers what the file says.
\* For any number of backups and writes.
THEOREM StoreIsCorrect == ConfigSpec => []StoreHolds
<1>1. ConfigInit => StoreInv
  <2> SUFFICES ASSUME ConfigInit PROVE StoreInv
    OBVIOUS
  <2> USE ConfigAssumption DEF ConfigAssumption, ConfigInit, Polling
  <2>1. ConfigTypeOK
    <3>1. config \in ConfigFile /\ config.mtime = 0 /\ writes \in config.mtime .. MaxWrites
      BY DEF ConfigFile
    <3>2. cache \in [cfg : ConfigFile, mtime : 0 .. MaxWrites, fresh : BOOLEAN]
      BY <3>1
    <3>3. saving \in BOOLEAN /\ overtaken \in BOOLEAN /\ refused \in BOOLEAN
      OBVIOUS
    <3>4. watch \in [at : {"polling", "debouncing", "copying", "remembering"},
                     last : 0 .. MaxWrites, seen : 0 .. MaxWrites]
      OBVIOUS
    <3>5. /\ Len(backups) <= MaxBackups /\ \A i \in DOMAIN backups : backups[i] \in ConfigFile
          /\ made \cup failed \subseteq 0 .. MaxWrites
      OBVIOUS
    <3> QED BY <3>1, <3>2, <3>3, <3>4, <3>5 DEF ConfigTypeOK
  <2>2. StoreTyped /\ BackupsAgree
    BY DEF StoreTyped, BackupsAgree
  <2>3. CacheAgrees
    BY DEF CacheAgrees
  <2> QED BY <2>1, <2>2, <2>3 DEF StoreInv
<1>2. StoreInv /\ [ConfigNext]_configVars => StoreInv'
  BY StoreStep, ConfigAssumption
<1>3. StoreInv => StoreHolds
  BY DEF StoreInv, StoreHolds, SettledIsBackedUp, CacheFollowsFile, CacheHolds, BackupsAgree, CacheAgrees
<1> QED BY <1>1, <1>2, <1>3, PTL DEF ConfigSpec

-----------------------------------------------------------------------------
(* The secrets.                                                            *)

\* As long as no key was lost, a sealed field is sealed with the key that is there.
OneKey ==
    ~lost => \A s \in Fields :
                sealed[s].key = Plaintext \/ (keyFile \in Key /\ sealed[s].key = keyFile)

\* A start writes its key into the file it has created.
KeyIsWrittenOnce == starting = "write" => keyFile = EmptyKey /\ keys < MaxKeys

ValuesKept == entered = [s \in Fields |-> sealed[s].value]

BoxInv == BoxTypeOK /\ NothingPlainOnDisk /\ ValuesKept /\ OneKey /\ KeyIsWrittenOnce

\* Decryption keeps the values, leaves plaintext alone, and opens everything that is
\* sealed with the key.
LEMMA OpenedFacts ==
    ASSUME NEW cfg \in [Fields -> Sealing]
    PROVE  /\ Opened(cfg) \in [Fields -> Sealing]
           /\ \A s \in Fields :
                 /\ Opened(cfg)[s].value = cfg[s].value
                 /\ Opened(cfg)[s].key \in {cfg[s].key, Plaintext}
           /\ Usable /\ (\A s \in Fields : cfg[s].key \in {Plaintext, keyFile}) =>
                 \A s \in Fields : Opened(cfg)[s].key = Plaintext
<1> DEFINE wrong == {i \in DOMAIN Secrets : IsEncrypted(cfg[Secrets[i]]) /\ cfg[Secrets[i]].key # keyFile}
           reached(s) == \A i \in wrong : \E j \in 1..(i - 1) : Secrets[j] = s
           opened(s) == IF IsEncrypted(cfg[s]) /\ reached(s) THEN [cfg[s] EXCEPT !.key = Plaintext]
                        ELSE cfg[s]
<1>1. DecryptInPlace(cfg) = [s \in Fields |-> opened(s)]
  BY DEF DecryptInPlace
<1>2. (\A s \in Fields : cfg[s].key \in {Plaintext, keyFile}) => wrong = {}
  BY DEF IsEncrypted, Fields, ToSet
<1> HIDE DEF wrong
<1>3. \A s \in Fields : /\ opened(s) \in Sealing /\ opened(s).value = cfg[s].value
                        /\ opened(s).key \in {cfg[s].key, Plaintext}
                        /\ wrong = {} => opened(s).key = Plaintext
  BY DEF IsEncrypted, Sealing
<1> HIDE DEF opened
<1> QED BY <1>1, <1>2, <1>3 DEF Opened

\* Encryption keeps the values too, seals with the key that is there, and leaves
\* nothing but empty fields unsealed.
LEMMA EncryptFacts ==
    ASSUME NEW cfg \in [Fields -> Sealing]
    PROVE  /\ EncryptInPlace(cfg) \in [Fields -> Sealing]
           /\ \A s \in Fields :
                 /\ EncryptInPlace(cfg)[s].value = cfg[s].value
                 /\ \/ EncryptInPlace(cfg)[s].key = cfg[s].key
                    \/ Usable /\ EncryptInPlace(cfg)[s].key = keyFile
           /\ Usable => ~HasPlaintext(EncryptInPlace(cfg))
<1>1. ASSUME NEW f \in Sealing, Usable
      PROVE  /\ Encrypt(f) \in Sealing /\ Encrypt(f).value = f.value
             /\ Encrypt(f).key \in {f.key, keyFile}
             /\ Encrypt(f).value = 0 \/ Encrypt(f).key # Plaintext
  BY <1>1 DEF Encrypt, IsEncrypted, Sealing, Usable, Key, Plaintext
<1> QED BY <1>1 DEF EncryptInPlace, HasPlaintext, IsEncrypted

LEMMA BoxStep == ASSUME BoxAssumption, BoxInv, [BoxNext]_boxVars PROVE BoxInv'
<1>0. /\ sealed \in [Fields -> Sealing] /\ keys \in Nat /\ MaxKeys \in Nat
      /\ entries \in 0 .. MaxEntries /\ MaxEntries \in Nat
  BY DEF BoxInv, BoxTypeOK, BoxAssumption
<1>k. /\ EmptyKey \notin Key /\ NoKey \notin Key
      /\ \A f \in [Fields -> Sealing], s \in Fields, n \in 1 .. MaxEntries :
            [f EXCEPT ![s] = [value |-> n, key |-> Plaintext]] \in [Fields -> Sealing]
  BY BoxAssumption DEF BoxAssumption, Key, EmptyKey, NoKey, Sealing, Plaintext
<1>1. ASSUME WebStarts PROVE BoxInv'
  <2>t. BoxTypeOK'
    <3>1. keyFile' \in {NoKey, EmptyKey} \union Key /\ keys' \in 0..MaxKeys
      BY <1>1, <1>0 DEF WebStarts, BoxInv, BoxTypeOK, KeyIsWrittenOnce, Key
    <3>2. sealed' \in [Fields -> Sealing] /\ notifier' \in [Fields -> Sealing]
      BY <1>1 DEF WebStarts, BoxInv, BoxTypeOK
    <3>3. starting' \in {"down", "key", "write", "migrate", "up"}
      BY <1>1 DEF WebStarts, BoxInv, BoxTypeOK
    <3>4. webStarts' \in 0..MaxWebStarts /\ entries' \in 0..MaxEntries
      BY <1>1, BoxAssumption DEF WebStarts, BoxInv, BoxTypeOK, BoxAssumption
    <3> QED BY <3>1, <3>2, <3>3, <3>4 DEF BoxTypeOK
  <2>p. NothingPlainOnDisk'
    BY <1>1, <1>0 DEF WebStarts, BoxInv, NothingPlainOnDisk, Usable, Key, HasPlaintext, IsEncrypted
  <2>v. ValuesKept'
    BY <1>1, <1>0 DEF WebStarts, BoxInv, ValuesKept
  <2>o. OneKey'
    BY <1>1, <1>0, <1>k DEF WebStarts, BoxInv, OneKey, KeyIsWrittenOnce, Usable
  <2>w. KeyIsWrittenOnce'
    BY <1>1, <1>0 DEF WebStarts, BoxInv, KeyIsWrittenOnce
  <2> QED BY <2>t, <2>p, <2>v, <2>o, <2>w DEF BoxInv
<1>2. ASSUME CreateKeyFile PROVE BoxInv'
  <2>t. BoxTypeOK'
    <3>1. keyFile' \in {NoKey, EmptyKey} \union Key /\ keys' \in 0..MaxKeys
      BY <1>2, <1>0 DEF CreateKeyFile, BoxInv, BoxTypeOK, KeyIsWrittenOnce, Key
    <3>2. sealed' \in [Fields -> Sealing] /\ notifier' \in [Fields -> Sealing]
      BY <1>2 DEF CreateKeyFile, BoxInv, BoxTypeOK
    <3>3. starting' \in {"down", "key", "write", "migrate", "up"}
      BY <1>2 DEF CreateKeyFile, BoxInv, BoxTypeOK
    <3>4. webStarts' \in 0..MaxWebStarts /\ entries' \in 0..MaxEntries
      BY <1>2, BoxAssumption DEF CreateKeyFile, BoxInv, BoxTypeOK, BoxAssumption
    <3> QED BY <3>1, <3>2, <3>3, <3>4 DEF BoxTypeOK
  <2>p. NothingPlainOnDisk'
    BY <1>2, <1>0 DEF CreateKeyFile, BoxInv, NothingPlainOnDisk, Usable, Key, HasPlaintext, IsEncrypted
  <2>v. ValuesKept'
    BY <1>2, <1>0 DEF CreateKeyFile, BoxInv, ValuesKept
  <2>o. OneKey'
    BY <1>2, <1>0, <1>k DEF CreateKeyFile, BoxInv, OneKey, KeyIsWrittenOnce, Usable
  <2>w. KeyIsWrittenOnce'
    BY <1>2, <1>0 DEF CreateKeyFile, BoxInv, KeyIsWrittenOnce
  <2> QED BY <2>t, <2>p, <2>v, <2>o, <2>w DEF BoxInv
<1>3. ASSUME WriteKey PROVE BoxInv'
  <2>t. BoxTypeOK'
    <3>1. keyFile' \in {NoKey, EmptyKey} \union Key /\ keys' \in 0..MaxKeys
      BY <1>3, <1>0 DEF WriteKey, BoxInv, BoxTypeOK, KeyIsWrittenOnce, Key
    <3>2. sealed' \in [Fields -> Sealing] /\ notifier' \in [Fields -> Sealing]
      BY <1>3 DEF WriteKey, BoxInv, BoxTypeOK
    <3>3. starting' \in {"down", "key", "write", "migrate", "up"}
      BY <1>3 DEF WriteKey, BoxInv, BoxTypeOK
    <3>4. webStarts' \in 0..MaxWebStarts /\ entries' \in 0..MaxEntries
      BY <1>3, BoxAssumption DEF WriteKey, BoxInv, BoxTypeOK, BoxAssumption
    <3> QED BY <3>1, <3>2, <3>3, <3>4 DEF BoxTypeOK
  <2>p. NothingPlainOnDisk'
    BY <1>3, <1>0 DEF WriteKey, BoxInv, NothingPlainOnDisk, Usable, Key, HasPlaintext, IsEncrypted
  <2>v. ValuesKept'
    BY <1>3, <1>0 DEF WriteKey, BoxInv, ValuesKept
  <2>o. OneKey'
    BY <1>3, <1>0, <1>k DEF WriteKey, BoxInv, OneKey, KeyIsWrittenOnce, Usable
  <2>w. KeyIsWrittenOnce'
    BY <1>3, <1>0 DEF WriteKey, BoxInv, KeyIsWrittenOnce
  <2> QED BY <2>t, <2>p, <2>v, <2>o, <2>w DEF BoxInv
<1>4. ASSUME KeyIsThere PROVE BoxInv'
  <2>t. BoxTypeOK'
    <3>1. keyFile' \in {NoKey, EmptyKey} \union Key /\ keys' \in 0..MaxKeys
      BY <1>4, <1>0 DEF KeyIsThere, BoxInv, BoxTypeOK, KeyIsWrittenOnce, Key
    <3>2. sealed' \in [Fields -> Sealing] /\ notifier' \in [Fields -> Sealing]
      BY <1>4 DEF KeyIsThere, BoxInv, BoxTypeOK
    <3>3. starting' \in {"down", "key", "write", "migrate", "up"}
      BY <1>4 DEF KeyIsThere, BoxInv, BoxTypeOK
    <3>4. webStarts' \in 0..MaxWebStarts /\ entries' \in 0..MaxEntries
      BY <1>4, BoxAssumption DEF KeyIsThere, BoxInv, BoxTypeOK, BoxAssumption
    <3> QED BY <3>1, <3>2, <3>3, <3>4 DEF BoxTypeOK
  <2>p. NothingPlainOnDisk'
    BY <1>4, <1>0 DEF KeyIsThere, BoxInv, NothingPlainOnDisk, Usable, Key, HasPlaintext, IsEncrypted
  <2>v. ValuesKept'
    BY <1>4, <1>0 DEF KeyIsThere, BoxInv, ValuesKept
  <2>o. OneKey'
    BY <1>4, <1>0, <1>k DEF KeyIsThere, BoxInv, OneKey, KeyIsWrittenOnce, Usable
  <2>w. KeyIsWrittenOnce'
    BY <1>4, <1>0 DEF KeyIsThere, BoxInv, KeyIsWrittenOnce
  <2> QED BY <2>t, <2>p, <2>v, <2>o, <2>w DEF BoxInv
<1>5. ASSUME EncryptPlaintextSecrets PROVE BoxInv'
  <2> DEFINE opened == Opened(sealed)
  <2>a. /\ opened \in [Fields -> Sealing]
        /\ \A f \in Fields : /\ opened[f].value = sealed[f].value
                             /\ opened[f].key \in {sealed[f].key, Plaintext}
    BY <1>0, OpenedFacts
  <2>b. /\ EncryptInPlace(opened) \in [Fields -> Sealing]
        /\ \A f \in Fields :
              /\ EncryptInPlace(opened)[f].value = opened[f].value
              /\ \/ EncryptInPlace(opened)[f].key = opened[f].key
                 \/ Usable /\ EncryptInPlace(opened)[f].key = keyFile
        /\ Usable => ~HasPlaintext(EncryptInPlace(opened))
    BY <2>a, EncryptFacts
  <2>c. \/ sealed' = EncryptInPlace(opened)
        \/ sealed' = sealed /\ (Usable => ~HasPlaintext(opened))
    BY <1>5 DEF EncryptPlaintextSecrets
  <2>d. starting' = "up" /\ UNCHANGED <<keyFile, keys, webStarts, entered, entries, notifier, handmade, lost>>
    BY <1>5 DEF EncryptPlaintextSecrets
  <2> HIDE DEF opened
  <2>t. BoxTypeOK'
    <3>1. keyFile' \in {NoKey, EmptyKey} \union Key /\ keys' \in 0..MaxKeys
      BY <2>a, <2>b, <2>c, <2>d, <1>0 DEF BoxInv, BoxTypeOK, KeyIsWrittenOnce, Key
    <3>2. sealed' \in [Fields -> Sealing] /\ notifier' \in [Fields -> Sealing]
      BY <2>a, <2>b, <2>c, <2>d DEF BoxInv, BoxTypeOK
    <3>3. starting' \in {"down", "key", "write", "migrate", "up"}
      BY <2>a, <2>b, <2>c, <2>d DEF BoxInv, BoxTypeOK
    <3>4. webStarts' \in 0..MaxWebStarts /\ entries' \in 0..MaxEntries
      BY <2>a, <2>b, <2>c, <2>d, BoxAssumption DEF BoxInv, BoxTypeOK, BoxAssumption
    <3> QED BY <3>1, <3>2, <3>3, <3>4 DEF BoxTypeOK
  <2>p. NothingPlainOnDisk'
    BY <2>a, <2>b, <2>c, <2>d, <1>0 DEF BoxInv, NothingPlainOnDisk, Usable, Key, HasPlaintext, IsEncrypted
  <2>v. ValuesKept'
    BY <2>a, <2>b, <2>c, <2>d, <1>0 DEF BoxInv, ValuesKept
  <2>o. OneKey'
    BY <2>a, <2>b, <2>c, <2>d, <1>0, <1>k DEF BoxInv, OneKey, KeyIsWrittenOnce, Usable
  <2>w. KeyIsWrittenOnce'
    BY <2>a, <2>b, <2>c, <2>d, <1>0 DEF BoxInv, KeyIsWrittenOnce
  <2> QED BY <2>t, <2>p, <2>v, <2>o, <2>w DEF BoxInv
<1>6. ASSUME WebCrashes PROVE BoxInv'
  <2>t. BoxTypeOK'
    <3>1. keyFile' \in {NoKey, EmptyKey} \union Key /\ keys' \in 0..MaxKeys
      BY <1>6, <1>0 DEF WebCrashes, BoxInv, BoxTypeOK, KeyIsWrittenOnce, Key
    <3>2. sealed' \in [Fields -> Sealing] /\ notifier' \in [Fields -> Sealing]
      BY <1>6 DEF WebCrashes, BoxInv, BoxTypeOK
    <3>3. starting' \in {"down", "key", "write", "migrate", "up"}
      BY <1>6 DEF WebCrashes, BoxInv, BoxTypeOK
    <3>4. webStarts' \in 0..MaxWebStarts /\ entries' \in 0..MaxEntries
      BY <1>6, BoxAssumption DEF WebCrashes, BoxInv, BoxTypeOK, BoxAssumption
    <3> QED BY <3>1, <3>2, <3>3, <3>4 DEF BoxTypeOK
  <2>p. NothingPlainOnDisk'
    BY <1>6, <1>0 DEF WebCrashes, BoxInv, NothingPlainOnDisk, Usable, Key, HasPlaintext, IsEncrypted
  <2>v. ValuesKept'
    BY <1>6, <1>0 DEF WebCrashes, BoxInv, ValuesKept
  <2>o. OneKey'
    BY <1>6, <1>0, <1>k DEF WebCrashes, BoxInv, OneKey, KeyIsWrittenOnce, Usable
  <2>w. KeyIsWrittenOnce'
    BY <1>6, <1>0 DEF WebCrashes, BoxInv, KeyIsWrittenOnce
  <2> QED BY <2>t, <2>p, <2>v, <2>o, <2>w DEF BoxInv
<1>7. ASSUME KeyIsLost PROVE BoxInv'
  <2>t. BoxTypeOK'
    <3>1. keyFile' \in {NoKey, EmptyKey} \union Key /\ keys' \in 0..MaxKeys
      BY <1>7, <1>0 DEF KeyIsLost, BoxInv, BoxTypeOK, KeyIsWrittenOnce, Key
    <3>2. sealed' \in [Fields -> Sealing] /\ notifier' \in [Fields -> Sealing]
      BY <1>7 DEF KeyIsLost, BoxInv, BoxTypeOK
    <3>3. starting' \in {"down", "key", "write", "migrate", "up"}
      BY <1>7 DEF KeyIsLost, BoxInv, BoxTypeOK
    <3>4. webStarts' \in 0..MaxWebStarts /\ entries' \in 0..MaxEntries
      BY <1>7, BoxAssumption DEF KeyIsLost, BoxInv, BoxTypeOK, BoxAssumption
    <3> QED BY <3>1, <3>2, <3>3, <3>4 DEF BoxTypeOK
  <2>p. NothingPlainOnDisk'
    BY <1>7, <1>0 DEF KeyIsLost, BoxInv, NothingPlainOnDisk, Usable, Key, HasPlaintext, IsEncrypted
  <2>v. ValuesKept'
    BY <1>7, <1>0 DEF KeyIsLost, BoxInv, ValuesKept
  <2>o. OneKey'
    BY <1>7, <1>0, <1>k DEF KeyIsLost, BoxInv, OneKey, KeyIsWrittenOnce, Usable
  <2>w. KeyIsWrittenOnce'
    BY <1>7, <1>0 DEF KeyIsLost, BoxInv, KeyIsWrittenOnce
  <2> QED BY <2>t, <2>p, <2>v, <2>o, <2>w DEF BoxInv
<1>8. ASSUME NotifierLoads PROVE BoxInv'
  <2> DEFINE opened == Opened(sealed)
  <2>a. /\ opened \in [Fields -> Sealing]
        /\ \A f \in Fields : /\ opened[f].value = sealed[f].value
                             /\ opened[f].key \in {sealed[f].key, Plaintext}
    BY <1>0, OpenedFacts
  <2>b. notifier' = opened
    BY <1>8 DEF NotifierLoads
  <2>d. UNCHANGED <<keyFile, keys, sealed, starting, webStarts, entered, entries, handmade, lost>>
    BY <1>8 DEF NotifierLoads
  <2> HIDE DEF opened
  <2>t. BoxTypeOK'
    <3>1. keyFile' \in {NoKey, EmptyKey} \union Key /\ keys' \in 0..MaxKeys
      BY <2>a, <2>b, <2>d, <1>0 DEF BoxInv, BoxTypeOK, KeyIsWrittenOnce, Key
    <3>2. sealed' \in [Fields -> Sealing] /\ notifier' \in [Fields -> Sealing]
      BY <2>a, <2>b, <2>d DEF BoxInv, BoxTypeOK
    <3>3. starting' \in {"down", "key", "write", "migrate", "up"}
      BY <2>a, <2>b, <2>d DEF BoxInv, BoxTypeOK
    <3>4. webStarts' \in 0..MaxWebStarts /\ entries' \in 0..MaxEntries
      BY <2>a, <2>b, <2>d, BoxAssumption DEF BoxInv, BoxTypeOK, BoxAssumption
    <3> QED BY <3>1, <3>2, <3>3, <3>4 DEF BoxTypeOK
  <2>p. NothingPlainOnDisk'
    BY <2>a, <2>b, <2>d, <1>0 DEF BoxInv, NothingPlainOnDisk, Usable, Key, HasPlaintext, IsEncrypted
  <2>v. ValuesKept'
    BY <2>a, <2>b, <2>d, <1>0 DEF BoxInv, ValuesKept
  <2>o. OneKey'
    BY <2>a, <2>b, <2>d, <1>0, <1>k DEF BoxInv, OneKey, KeyIsWrittenOnce, Usable
  <2>w. KeyIsWrittenOnce'
    BY <2>a, <2>b, <2>d, <1>0 DEF BoxInv, KeyIsWrittenOnce
  <2> QED BY <2>t, <2>p, <2>v, <2>o, <2>w DEF BoxInv
<1>9. ASSUME NEW s \in Fields, SaveSecret(s) PROVE BoxInv'
  <2> DEFINE opened == [Opened(sealed) EXCEPT ![s] = [value |-> entries + 1, key |-> Plaintext]]
  <2>1. entries < MaxEntries /\ entries' = entries + 1 /\ entered' = [entered EXCEPT ![s] = entries + 1]
    BY <1>9 DEF SaveSecret
  <2>a. /\ opened \in [Fields -> Sealing]
        /\ \A f \in Fields : /\ f # s => opened[f].value = sealed[f].value
                             /\ opened[f].key \in {sealed[f].key, Plaintext}
        /\ opened[s].value = entries + 1
    <3>1. /\ Opened(sealed) \in [Fields -> Sealing]
          /\ \A f \in Fields : /\ Opened(sealed)[f].value = sealed[f].value
                               /\ Opened(sealed)[f].key \in {sealed[f].key, Plaintext}
      BY <1>0, OpenedFacts
    <3>2. entries + 1 \in 1 .. MaxEntries
      BY <1>0, <2>1
    <3> QED BY <1>k, <3>1, <3>2
  <2>b. /\ EncryptInPlace(opened) \in [Fields -> Sealing]
        /\ \A f \in Fields :
              /\ EncryptInPlace(opened)[f].value = opened[f].value
              /\ \/ EncryptInPlace(opened)[f].key = opened[f].key
                 \/ Usable /\ EncryptInPlace(opened)[f].key = keyFile
        /\ Usable => ~HasPlaintext(EncryptInPlace(opened))
    BY <2>a, EncryptFacts
  <2>c. sealed' = EncryptInPlace(opened)
    BY <1>9 DEF SaveSecret
  <2>d. UNCHANGED <<keyFile, keys, starting, webStarts, notifier, handmade, lost>>
    BY <1>9 DEF SaveSecret
  <2> HIDE DEF opened
  <2>t. BoxTypeOK'
    <3>1. keyFile' \in {NoKey, EmptyKey} \union Key /\ keys' \in 0..MaxKeys
      BY <2>1, <2>a, <2>b, <2>c, <2>d, <1>0 DEF BoxInv, BoxTypeOK, KeyIsWrittenOnce, Key
    <3>2. sealed' \in [Fields -> Sealing] /\ notifier' \in [Fields -> Sealing]
      BY <2>1, <2>a, <2>b, <2>c, <2>d DEF BoxInv, BoxTypeOK
    <3>3. starting' \in {"down", "key", "write", "migrate", "up"}
      BY <2>1, <2>a, <2>b, <2>c, <2>d DEF BoxInv, BoxTypeOK
    <3>4. webStarts' \in 0..MaxWebStarts /\ entries' \in 0..MaxEntries
      BY <2>1, <2>a, <2>b, <2>c, <2>d, BoxAssumption DEF BoxInv, BoxTypeOK, BoxAssumption
    <3> QED BY <3>1, <3>2, <3>3, <3>4 DEF BoxTypeOK
  <2>p. NothingPlainOnDisk'
    BY <2>1, <2>a, <2>b, <2>c, <2>d, <1>0 DEF BoxInv, NothingPlainOnDisk, Usable, Key, HasPlaintext, IsEncrypted
  <2>v. ValuesKept'
    BY <2>1, <2>a, <2>b, <2>c, <2>d, <1>0 DEF BoxInv, ValuesKept
  <2>o. OneKey'
    BY <2>1, <2>a, <2>b, <2>c, <2>d, <1>0, <1>k DEF BoxInv, OneKey, KeyIsWrittenOnce, Usable
  <2>w. KeyIsWrittenOnce'
    BY <2>1, <2>a, <2>b, <2>c, <2>d, <1>0 DEF BoxInv, KeyIsWrittenOnce
  <2> QED BY <2>t, <2>p, <2>v, <2>o, <2>w DEF BoxInv
<1>10. ASSUME NEW s \in Fields, HandEdit(s) PROVE BoxInv'
  <2> DEFINE opened == [sealed EXCEPT ![s] = [value |-> entries + 1, key |-> Plaintext]]
  <2>1. entries < MaxEntries /\ entries' = entries + 1 /\ entered' = [entered EXCEPT ![s] = entries + 1]
    BY <1>10 DEF HandEdit
  <2>a. /\ opened \in [Fields -> Sealing]
        /\ \A f \in Fields : /\ f # s => opened[f].value = sealed[f].value
                             /\ opened[f].key \in {sealed[f].key, Plaintext}
        /\ opened[s].value = entries + 1
    <3>1. /\ sealed \in [Fields -> Sealing]
          /\ \A f \in Fields : /\ sealed[f].value = sealed[f].value
                               /\ sealed[f].key \in {sealed[f].key, Plaintext}
      BY <1>0, OpenedFacts
    <3>2. entries + 1 \in 1 .. MaxEntries
      BY <1>0, <2>1
    <3> QED BY <1>k, <3>1, <3>2
  <2>b. sealed' = opened /\ handmade' = TRUE
    BY <1>10 DEF HandEdit
  <2>d. UNCHANGED <<keyFile, keys, starting, webStarts, notifier, lost>>
    BY <1>10 DEF HandEdit
  <2> HIDE DEF opened
  <2>t. BoxTypeOK'
    <3>1. keyFile' \in {NoKey, EmptyKey} \union Key /\ keys' \in 0..MaxKeys
      BY <2>1, <2>a, <2>b, <2>d, <1>0 DEF BoxInv, BoxTypeOK, KeyIsWrittenOnce, Key
    <3>2. sealed' \in [Fields -> Sealing] /\ notifier' \in [Fields -> Sealing]
      BY <2>1, <2>a, <2>b, <2>d DEF BoxInv, BoxTypeOK
    <3>3. starting' \in {"down", "key", "write", "migrate", "up"}
      BY <2>1, <2>a, <2>b, <2>d DEF BoxInv, BoxTypeOK
    <3>4. webStarts' \in 0..MaxWebStarts /\ entries' \in 0..MaxEntries
      BY <2>1, <2>a, <2>b, <2>d, BoxAssumption DEF BoxInv, BoxTypeOK, BoxAssumption
    <3> QED BY <3>1, <3>2, <3>3, <3>4 DEF BoxTypeOK
  <2>p. NothingPlainOnDisk'
    BY <2>1, <2>a, <2>b, <2>d, <1>0 DEF BoxInv, NothingPlainOnDisk, Usable, Key, HasPlaintext, IsEncrypted
  <2>v. ValuesKept'
    BY <2>1, <2>a, <2>b, <2>d, <1>0 DEF BoxInv, ValuesKept
  <2>o. OneKey'
    BY <2>1, <2>a, <2>b, <2>d, <1>0, <1>k DEF BoxInv, OneKey, KeyIsWrittenOnce, Usable
  <2>w. KeyIsWrittenOnce'
    BY <2>1, <2>a, <2>b, <2>d, <1>0 DEF BoxInv, KeyIsWrittenOnce
  <2> QED BY <2>t, <2>p, <2>v, <2>o, <2>w DEF BoxInv
<1>11. ASSUME UNCHANGED boxVars PROVE BoxInv'
  <2>t. BoxTypeOK'
    <3>1. keyFile' \in {NoKey, EmptyKey} \union Key /\ keys' \in 0..MaxKeys
      BY <1>11, <1>0 DEF boxVars, BoxInv, BoxTypeOK, KeyIsWrittenOnce, Key
    <3>2. sealed' \in [Fields -> Sealing] /\ notifier' \in [Fields -> Sealing]
      BY <1>11 DEF boxVars, BoxInv, BoxTypeOK
    <3>3. starting' \in {"down", "key", "write", "migrate", "up"}
      BY <1>11 DEF boxVars, BoxInv, BoxTypeOK
    <3>4. webStarts' \in 0..MaxWebStarts /\ entries' \in 0..MaxEntries
      BY <1>11, BoxAssumption DEF boxVars, BoxInv, BoxTypeOK, BoxAssumption
    <3> QED BY <3>1, <3>2, <3>3, <3>4 DEF BoxTypeOK
  <2>p. NothingPlainOnDisk'
    BY <1>11, <1>0 DEF boxVars, BoxInv, NothingPlainOnDisk, Usable, Key, HasPlaintext, IsEncrypted
  <2>v. ValuesKept'
    BY <1>11, <1>0 DEF boxVars, BoxInv, ValuesKept
  <2>o. OneKey'
    BY <1>11, <1>0, <1>k DEF boxVars, BoxInv, OneKey, KeyIsWrittenOnce, Usable
  <2>w. KeyIsWrittenOnce'
    BY <1>11, <1>0 DEF boxVars, BoxInv, KeyIsWrittenOnce
  <2> QED BY <2>t, <2>p, <2>v, <2>o, <2>w DEF BoxInv
<1> QED BY <1>1, <1>2, <1>3, <1>4, <1>5, <1>6, <1>7, <1>8, <1>9, <1>10, <1>11 DEF BoxNext

\* Keys that are created in two steps, crashes between them, migrations and saves:
\* the file holds no secret in plaintext that a service put there, and every secret is
\* read back while no key was lost.  For any number of fields, keys, secrets and starts.
THEOREM SecretsAreSafe == BoxSpec => []SecretsHold
<1>1. BoxInit => BoxInv
  <2> SUFFICES ASSUME BoxInit PROVE BoxInv
    OBVIOUS
  <2> USE BoxAssumption DEF BoxAssumption, BoxInit
  <2>1. sealed \in [Fields -> Sealing] /\ \A s \in Fields : sealed[s].key = Plaintext
    BY DEF Sealing, Unset, Plaintext
  <2>2. notifier \in [Fields -> Sealing]
    BY DEF NotRead, Sealing, Unset, Plaintext
  <2>3. BoxTypeOK
    BY <2>1, <2>2 DEF BoxTypeOK
  <2>4. NothingPlainOnDisk /\ KeyIsWrittenOnce
    BY DEF NothingPlainOnDisk, KeyIsWrittenOnce
  <2>5. OneKey /\ ValuesKept
    BY <2>1 DEF OneKey, ValuesKept
  <2> QED BY <2>3, <2>4, <2>5 DEF BoxInv
<1>2. BoxInv /\ [BoxNext]_boxVars => BoxInv'
  BY BoxStep, BoxAssumption
<1>3. ASSUME BoxInv PROVE SecretsHold
  <2>1. sealed \in [Fields -> Sealing] /\ \A s \in Fields : sealed[s].value = entered[s]
    BY <1>3 DEF BoxInv, BoxTypeOK, ValuesKept
  <2>2. ASSUME Usable, ~lost, NEW s \in Fields
        PROVE  Opened(sealed)[s] = [value |-> entered[s], key |-> Plaintext]
    <3>1. \A f \in Fields : sealed[f].key \in {Plaintext, keyFile}
      BY <1>3, <2>2 DEF BoxInv, OneKey
    <3>2. /\ Opened(sealed)[s] \in Sealing
          /\ Opened(sealed)[s].value = entered[s] /\ Opened(sealed)[s].key = Plaintext
      BY <2>1, <2>2, <3>1, OpenedFacts
    <3> QED BY <3>2 DEF Sealing
  <2> QED BY <1>3, <2>1, <2>2 DEF BoxInv, SecretsHold, SecretsAreReadBack
<1> QED BY <1>1, <1>2, <1>3, PTL DEF BoxSpec

-----------------------------------------------------------------------------
(* The editor.                                                             *)

Shown == {"secret", "masked", "empty"}
Views == [urls : [CameraNames -> Shown], keys : Shown, channels : [ChannelNames -> Shown]]

\* What a tab of the editor holds.
Tabs == [role : {"admin", "viewer"}, cameras : [CameraNames -> Cameras \union {NoCamera}],
         channels : SUBSET ChannelNames, summary : SUBSET ChannelNames, enabled : BOOLEAN,
         view : Views]

FormInv ==
    /\ yaml \in Yaml /\ saves \in 0 .. MaxSaves
    /\ form \in [Forms -> Tabs \union {NoForm}]
    /\ ViewersSeeNoSecret /\ SilentAnswerMeansResolved

LEMMA NoCameraIsNone == NoCamera \notin Cameras
BY DEF NoCamera, Cameras

LEMMA NoFormIsClosed == NoForm.role = "closed" /\ NoForm \notin Tabs
BY DEF NoForm, Tabs

\* No warning means that every reference is resolved.
LEMMA NoOrphans ==
    ASSUME NEW cfg \in Yaml, Orphans(cfg) = {}
    PROVE  /\ cfg.summary \subseteq cfg.channels
           /\ \A n \in CameraNames : cfg.cameras[n] # NoCamera =>
                 cfg.cameras[n].notify \subseteq cfg.channels /\ cfg.cameras[n].deter \subseteq cfg.groups
<1> DEFINE Ours(n, missing) == {<<n, x>> : x \in missing}
           channels == {Ours(n, cfg.cameras[n].notify \ cfg.channels) : n \in Defined(cfg.cameras)}
           groups_ == {Ours(n, cfg.cameras[n].deter \ cfg.groups) : n \in Defined(cfg.cameras)}
           summary == Ours("summary", cfg.summary \ cfg.channels)
<1>1. Orphans(cfg) = summary \union UNION (channels \union groups_)
  BY DEF Orphans
<1> HIDE DEF channels, groups_, summary
<1>2. ASSUME NEW c \in cfg.summary \ cfg.channels PROVE FALSE
  <2>1. <<"summary", c>> \in summary
    BY DEF summary
  <2> QED BY <1>1, <2>1
<1>3. ASSUME NEW n \in Defined(cfg.cameras), NEW c \in cfg.cameras[n].notify \ cfg.channels PROVE FALSE
  <2>1. Ours(n, cfg.cameras[n].notify \ cfg.channels) \in channels
    BY DEF channels
  <2>2. <<n, c>> \in Ours(n, cfg.cameras[n].notify \ cfg.channels)
    OBVIOUS
  <2> HIDE DEF Ours
  <2> QED BY <1>1, <2>1, <2>2
<1>4. ASSUME NEW n \in Defined(cfg.cameras), NEW g \in cfg.cameras[n].deter \ cfg.groups PROVE FALSE
  <2>1. Ours(n, cfg.cameras[n].deter \ cfg.groups) \in groups_
    BY DEF groups_
  <2>2. <<n, g>> \in Ours(n, cfg.cameras[n].deter \ cfg.groups)
    OBVIOUS
  <2> HIDE DEF Ours
  <2> QED BY <1>1, <2>1, <2>2
<1> QED BY <1>2, <1>3, <1>4 DEF Defined

\* What a page is filled with; a viewer's copy shows which secrets are set, no more.
LEMMA PageFacts ==
    ASSUME NEW cfg \in Yaml
    PROVE  /\ ParsedCameras(cfg) \in [CameraNames -> Cameras \union {NoCamera}]
           /\ View(cfg) \in Views /\ Masked(View(cfg)) \in Views
           /\ Masked(View(cfg)).keys # "secret"
           /\ \A n \in CameraNames : Masked(View(cfg)).urls[n] =
                 IF ParsedCameras(cfg)[n] = NoCamera THEN "empty" ELSE "masked"
           /\ \A c \in ChannelNames : Masked(View(cfg)).channels[c] =
                 IF c \in cfg.channels THEN "masked" ELSE "empty"
<1>1. ParsedCameras(cfg) \in [CameraNames -> Cameras \union {NoCamera}]
  BY DEF ParsedCameras, Yaml
<1>2. /\ View(cfg) \in Views
      /\ \A n \in CameraNames :
            View(cfg).urls[n] = IF ParsedCameras(cfg)[n] = NoCamera THEN "empty" ELSE "secret"
      /\ \A c \in ChannelNames :
            View(cfg).channels[c] = IF c \in cfg.channels THEN "secret" ELSE "empty"
  BY DEF View, Views, Plain, Shown
<1>3. ASSUME NEW view \in Views
      PROVE  /\ Masked(view) \in Views /\ Masked(view).keys # "secret"
             /\ \A n \in CameraNames : Masked(view).urls[n] =
                   IF view.urls[n] = "secret" THEN "masked" ELSE view.urls[n]
             /\ \A c \in ChannelNames : Masked(view).channels[c] =
                   IF view.channels[c] = "secret" THEN "masked" ELSE view.channels[c]
  BY DEF Masked, Views, Shown
<1> QED BY <1>1, <1>2, <1>3

\* What the form's cameras become in the file.
LEMMA MergedFacts ==
    ASSUME yaml \in Yaml, NEW n \in CameraNames, NEW camera \in Cameras
    PROVE  /\ Merged(n, camera) \in Cameras /\ Merged(n, camera) # NoCamera
           /\ Merged(n, camera).extra = (yaml.cameras[n] # NoCamera /\ yaml.cameras[n].extra)
<1>1. (yaml.cameras[n] # NoCamera /\ yaml.cameras[n].extra) \in BOOLEAN
  OBVIOUS
<1>2. Merged(n, camera) \in Cameras
      /\ Merged(n, camera).extra = (yaml.cameras[n] # NoCamera /\ yaml.cameras[n].extra)
  BY <1>1 DEF Merged, Cameras
<1> QED BY <1>2, NoCameraIsNone

\* What a save of the form writes, and what it leaves alone.
LEMMA SavedFacts ==
    ASSUME FormInv, NEW p \in Forms, StructuredSave(p)
    PROVE  /\ yaml' \in Yaml /\ warned' = Answer(yaml')
           /\ saves < MaxSaves /\ saves' = saves + 1 /\ form' = [form EXCEPT ![p] = NoForm]
           /\ yaml'.keys = yaml.keys /\ yaml'.groups = yaml.groups
           /\ \A n \in CameraNames : yaml.cameras[n] # NoCamera /\ yaml'.cameras[n] # NoCamera =>
                 yaml'.cameras[n].extra = yaml.cameras[n].extra
<1> DEFINE sent == form[p]
           cams == [n \in CameraNames |-> IF sent.cameras[n] = NoCamera THEN NoCamera
                                          ELSE Merged(n, sent.cameras[n])]
<1>1. sent \in Tabs
  BY NoFormIsClosed DEF StructuredSave, FormInv
<1>2. /\ cams \in [CameraNames -> Cameras \union {NoCamera}]
      /\ \A n \in CameraNames : cams[n] # NoCamera /\ yaml.cameras[n] # NoCamera =>
            cams[n].extra = yaml.cameras[n].extra
  <2>1. ASSUME NEW n \in CameraNames, sent.cameras[n] # NoCamera
        PROVE  /\ Merged(n, sent.cameras[n]) \in Cameras
               /\ yaml.cameras[n] # NoCamera => Merged(n, sent.cameras[n]).extra = yaml.cameras[n].extra
    <3>1. sent.cameras[n] \in Cameras
      BY <1>1, <2>1 DEF Tabs
    <3>2. yaml.cameras[n] # NoCamera => yaml.cameras[n].extra \in BOOLEAN
      BY DEF FormInv, Yaml, Cameras
    <3> QED BY <3>1, <3>2, MergedFacts DEF FormInv
  <2> QED BY <2>1
<1>3. yaml' = [yaml EXCEPT !.cameras = cams, !.channels = sent.channels, !.summary = sent.summary,
                           !.enabled = sent.enabled]
  BY DEF StructuredSave, WriteFile
<1>4. warned' = Answer(yaml') /\ saves < MaxSaves /\ saves' = saves + 1
      /\ form' = [form EXCEPT ![p] = NoForm]
  BY DEF StructuredSave, WriteFile
<1> HIDE DEF cams, sent
<1>5. yaml' \in Yaml /\ yaml'.cameras = cams /\ yaml'.keys = yaml.keys /\ yaml'.groups = yaml.groups
  BY <1>1, <1>2, <1>3 DEF FormInv, Yaml, Tabs
<1> QED BY <1>2, <1>4, <1>5

LEMMA FormStep == ASSUME FormAssumption, FormInv, [FormNext]_formVars PROVE FormInv'
<1>0. yaml \in Yaml /\ form \in [Forms -> Tabs \union {NoForm}] /\ saves \in 0 .. MaxSaves /\ MaxSaves \in Nat
  BY DEF FormInv, FormAssumption
<1>1. ASSUME NEW p \in Forms, NEW role \in {"admin", "viewer"}, ConfigPage(p, role) PROVE FormInv'
  <2> DEFINE tab == [role |-> role, cameras |-> ParsedCameras(yaml), channels |-> yaml.channels,
                     summary |-> yaml.summary, enabled |-> yaml.enabled,
                     view |-> IF role = "admin" THEN View(yaml) ELSE Masked(View(yaml))]
  <2>1. form' = [form EXCEPT ![p] = tab] /\ UNCHANGED <<yaml, warned, saves>>
    BY <1>1 DEF ConfigPage
  <2>2. tab \in Tabs
    BY <1>0, PageFacts DEF Tabs, Yaml
  <2>3. tab.role = "viewer" =>
           /\ tab.view.keys # "secret"
           /\ \A n \in CameraNames :
                 tab.view.urls[n] = IF tab.cameras[n] = NoCamera THEN "empty" ELSE "masked"
           /\ \A c \in ChannelNames :
                 tab.view.channels[c] = IF c \in tab.channels THEN "masked" ELSE "empty"
    BY <1>0, PageFacts
  <2> HIDE DEF tab
  <2> QED BY <1>0, <2>1, <2>2, <2>3 DEF FormInv, ViewersSeeNoSecret, SilentAnswerMeansResolved
<1>2. ASSUME NEW p \in Forms, NEW old \in CameraNames, NEW new \in CameraNames, RenameCamera(p, old, new)
      PROVE  FormInv'
  <2> DEFINE cams == [form[p].cameras EXCEPT ![old] = NoCamera, ![new] = form[p].cameras[old]]
  <2>1. form' = [form EXCEPT ![p].cameras = cams] /\ form[p].role = "admin" /\ UNCHANGED <<yaml, warned, saves>>
    BY <1>2 DEF RenameCamera, Edited
  <2>2. form[p] \in Tabs
    BY <1>0, <2>1, NoFormIsClosed
  <2>3. cams \in [CameraNames -> Cameras \union {NoCamera}]
    BY <2>2 DEF Tabs
  <2> HIDE DEF cams
  <2>4. form'[p] \in Tabs /\ form'[p].role = "admin" /\ \A q \in Forms \ {p} : form'[q] = form[q]
    BY <1>0, <2>1, <2>2, <2>3 DEF Tabs
  <2> QED BY <1>0, <2>1, <2>4 DEF FormInv, ViewersSeeNoSecret, SilentAnswerMeansResolved
<1>3. ASSUME NEW p \in Forms, NEW n \in CameraNames, NEW camera \in CameraShapes, SetCamera(p, n, camera)
      PROVE  FormInv'
  <2> DEFINE cams == [form[p].cameras EXCEPT ![n] = camera]
  <2>1. form' = [form EXCEPT ![p].cameras = cams] /\ form[p].role = "admin" /\ UNCHANGED <<yaml, warned, saves>>
    BY <1>3 DEF SetCamera, Edited
  <2>2. form[p] \in Tabs
    BY <1>0, <2>1, NoFormIsClosed
  <2>3. cams \in [CameraNames -> Cameras \union {NoCamera}]
    BY <2>2 DEF Tabs, FormAssumption
  <2> HIDE DEF cams
  <2>4. form'[p] \in Tabs /\ form'[p].role = "admin" /\ \A q \in Forms \ {p} : form'[q] = form[q]
    BY <1>0, <2>1, <2>2, <2>3 DEF Tabs
  <2> QED BY <1>0, <2>1, <2>4 DEF FormInv, ViewersSeeNoSecret, SilentAnswerMeansResolved
<1>4. ASSUME NEW p \in Forms, NEW channels \in SUBSET ChannelNames, NEW summary \in SUBSET ChannelNames,
             SetChannels(p, channels, summary)
      PROVE  FormInv'
  <2>1. /\ form' = [form EXCEPT ![p].channels = channels, ![p].summary = summary]
        /\ form[p].role = "admin" /\ UNCHANGED <<yaml, warned, saves>>
    BY <1>4 DEF SetChannels, Edited
  <2>2. form[p] \in Tabs
    BY <1>0, <2>1, NoFormIsClosed
  <2>3. form' = [form EXCEPT ![p] = [form[p] EXCEPT !.channels = channels, !.summary = summary]]
    BY <1>0, <2>1
  <2>4. /\ form' \in [Forms -> Tabs \union {NoForm}] /\ form'[p].role = "admin"
        /\ \A q \in Forms \ {p} : form'[q] = form[q]
    <3> DEFINE tab == [form[p] EXCEPT !.channels = channels, !.summary = summary]
    <3>1. tab \in Tabs /\ tab.role = "admin"
      BY <2>1, <2>2 DEF Tabs
    <3>2. form' = [form EXCEPT ![p] = tab]
      BY <2>3
    <3> HIDE DEF tab
    <3> QED BY <1>0, <3>1, <3>2
  <2> QED BY <1>0, <2>1, <2>4 DEF FormInv, ViewersSeeNoSecret, SilentAnswerMeansResolved
<1>5. ASSUME NEW p \in Forms, StructuredSave(p) PROVE FormInv'
  <2>1. SilentAnswerMeansResolved'
    BY <1>5, SavedFacts, NoOrphans DEF SilentAnswerMeansResolved, Answer
  <2>2. ViewersSeeNoSecret'
    BY <1>0, <1>5, SavedFacts, NoFormIsClosed DEF FormInv, ViewersSeeNoSecret
  <2> QED BY <1>0, <1>5, <2>1, <2>2, SavedFacts DEF FormInv
<1>6. ASSUME NEW p \in Forms, SaveRefused(p) \/ ClosePage(p) PROVE FormInv'
  BY <1>0, <1>6, NoFormIsClosed DEF SaveRefused, ClosePage, FormInv, ViewersSeeNoSecret, SilentAnswerMeansResolved
<1>7. ASSUME NEW n \in CameraNames, NEW camera \in CameraShapes, RawSave(n, camera) PROVE FormInv'
  <2>1. /\ yaml' = [yaml EXCEPT !.cameras = [yaml.cameras EXCEPT ![n] = camera]] /\ warned' = Answer(yaml')
        /\ saves < MaxSaves /\ saves' = saves + 1 /\ UNCHANGED form
    BY <1>0, <1>7 DEF RawSave, WriteFile, Yaml
  <2>2. yaml' \in Yaml
    BY <1>0, <2>1 DEF FormAssumption, Yaml
  <2>3. SilentAnswerMeansResolved'
    BY <2>1, <2>2, NoOrphans DEF SilentAnswerMeansResolved, Answer
  <2> QED BY <1>0, <2>1, <2>2, <2>3 DEF FormInv, ViewersSeeNoSecret
<1>8. ASSUME NEW groups_ \in SUBSET GroupNames, DeterrentSave(groups_) PROVE FormInv'
  <2>1. /\ yaml' = [yaml EXCEPT !.keys = TRUE, !.groups = groups_] /\ warned' = [editor |-> FALSE, orphans |-> {}]
        /\ saves < MaxSaves /\ saves' = saves + 1 /\ UNCHANGED form
    BY <1>8 DEF DeterrentSave, WriteFile
  <2>2. yaml' \in Yaml
    BY <1>0, <2>1 DEF Yaml
  <2>3. SilentAnswerMeansResolved'
    BY <2>1 DEF SilentAnswerMeansResolved
  <2> QED BY <1>0, <2>1, <2>2, <2>3 DEF FormInv, ViewersSeeNoSecret
<1>9. ASSUME UNCHANGED formVars PROVE FormInv'
  BY <1>9 DEF formVars, FormInv, ViewersSeeNoSecret, SilentAnswerMeansResolved
<1> QED BY <1>1, <1>2, <1>3, <1>4, <1>5, <1>6, <1>7, <1>8, <1>9 DEF FormNext

LEMMA FormInvHolds == FormSpec => []FormInv
<1>1. FormInit => FormInv
  <2> SUFFICES ASSUME FormInit PROVE FormInv
    OBVIOUS
  <2>1. yaml \in Yaml /\ saves \in 0 .. MaxSaves
    BY FormAssumption DEF FormInit, FormAssumption, Yaml
  <2>2. form \in [Forms -> Tabs \union {NoForm}] /\ ViewersSeeNoSecret
    BY NoFormIsClosed DEF FormInit, ViewersSeeNoSecret
  <2>3. SilentAnswerMeansResolved
    BY DEF FormInit, SilentAnswerMeansResolved
  <2> QED BY <2>1, <2>2, <2>3 DEF FormInv
<1>2. FormInv /\ [FormNext]_formVars => FormInv'
  BY FormStep, FormAssumption
<1> QED BY <1>1, <1>2, PTL DEF FormSpec

\* Stale pages, raw saves and another page's in any order: the read-only role sees no
\* secret, and an answer without a warning is right.  For any tabs, cameras, channels
\* and groups.
THEOREM FormIsCorrect == FormSpec => []FormHolds
<1>1. FormInv => FormHolds
  BY NoFormIsClosed DEF FormInv, FormHolds, FormTypeOK, Tabs
<1> QED BY <1>1, FormInvHolds, PTL

\* However stale the page is that is saved, what it does not show stays as it is.
THEOREM FormKeepsTheRestHolds == FormSpec => FormKeepsTheRest
<1>1. ASSUME FormInv, NEW p \in Forms, StructuredSave(p)
      PROVE  /\ yaml'.keys = yaml.keys /\ yaml'.groups = yaml.groups
             /\ \A n \in Defined(yaml.cameras) \cap Defined(yaml'.cameras) :
                   yaml'.cameras[n].extra = yaml.cameras[n].extra
  BY <1>1, SavedFacts DEF Defined
<1>2. FormInv /\ [FormNext]_formVars =>
         [\A p \in Forms : StructuredSave(p) =>
             /\ yaml'.keys = yaml.keys /\ yaml'.groups = yaml.groups
             /\ \A n \in Defined(yaml.cameras) \cap Defined(yaml'.cameras) :
                   yaml'.cameras[n].extra = yaml.cameras[n].extra]_formVars
  BY <1>1
<1> QED BY <1>2, FormInvHolds, PTL DEF FormSpec, FormKeepsTheRest

-----------------------------------------------------------------------------
(* The recipients of an alert.                                             *)

\* There is one recognition of an alert, or none.
OneAtMost(recognition) == recognition = {} \/ \E rec : recognition = {rec}

IsList(list) == DOMAIN list = 1 .. Len(list) /\ Len(list) \in Nat

\* The first of the rules that hold is the one with no other before it, and there is
\* one if any holds.
LEMMA FirstRuleDecides ==
    ASSUME NEW rules, IsList(rules), NEW hits, hits \subseteq DOMAIN rules
    PROVE  /\ \A r \in FirstRule(rules, hits) :
                  \E i \in hits : r = rules[i] /\ \A j \in 1 .. i - 1 : j \notin hits
           /\ \A i \in hits : (\A j \in 1 .. i - 1 : j \notin hits) => rules[i] \in FirstRule(rules, hits)
           /\ FirstRule(rules, hits) = {} <=> hits = {}
<1>0. hits \subseteq Nat \ {0}
  BY DEF IsList
<1>1. \A i \in hits : (\A j \in 1 .. i - 1 : j \notin hits) <=> \A k \in hits : i <= k
  <2> SUFFICES ASSUME NEW i \in hits
               PROVE  (\A j \in 1 .. i - 1 : j \notin hits) <=> \A k \in hits : i <= k
    OBVIOUS
  <2>1. ASSUME \A j \in 1 .. i - 1 : j \notin hits, NEW k \in hits PROVE i <= k
    <3>1. k \notin 1 .. i - 1
      BY <2>1
    <3> QED BY <1>0, <3>1
  <2>2. ASSUME \A k \in hits : i <= k, NEW j \in 1 .. i - 1, j \in hits PROVE FALSE
    <3>1. i <= j
      BY <2>2
    <3> QED BY <1>0, <3>1
  <2> QED BY <2>1, <2>2
<1>2. hits # {} => \E i \in hits : \A k \in hits : i <= k
  BY <1>0, LeastExists
<1> QED BY <1>1, <1>2 DEF FirstRule

\* The names a list of rules has for a class: those of the rule that decides.
LEMMA MatchedNames ==
    ASSUME NEW rules, IsList(rules), NEW class
    PROVE  MatchRules(class, rules) =
               {rules[i].names : i \in {j \in DOMAIN rules :
                                           Decides(rules, LAMBDA r : r.class = class \/ r.class = "*", j)}}
<1> DEFINE hits == {i \in DOMAIN rules : Concerns(rules[i], class)}
           decisive == {j \in DOMAIN rules : Decides(rules, LAMBDA r : r.class = class \/ r.class = "*", j)}
<1>1. \A i \in DOMAIN rules : \A j \in 1 .. i - 1 : j \in DOMAIN rules
  BY DEF IsList
<1>2. \A j \in DOMAIN rules : j \in decisive <=> j \in hits /\ \A k \in 1 .. j - 1 : k \notin hits
  BY <1>1 DEF Decides, Concerns
<1>3. MatchRules(class, rules) = {rule.names : rule \in FirstRule(rules, hits)}
  BY DEF MatchRules
<1>4. hits \subseteq DOMAIN rules /\ decisive \subseteq DOMAIN rules
  OBVIOUS
<1> HIDE DEF hits, decisive
<1>5. FirstRule(rules, hits) = {rules[i] : i \in decisive}
  BY <1>2, <1>4, FirstRuleDecides
<1>6. MatchRules(class, rules) = {rules[i].names : i \in decisive}
  BY <1>3, <1>5
<1> QED BY <1>6 DEF decisive

\* What the copy somebody goes by makes of a class: for a press only the rules of a
\* doorbell that is a camera.
ActionsMeant(cfg, class) == IF class = Press THEN ResolveActions(cfg) ELSE ActionsOf(class, cfg.rules)
GroupsMeant(cfg, class) == IF class = Press THEN {} ELSE GroupsOf(class, cfg.deterrents)
FaceNames(cfg, recognition, channel) ==
    \E i \in DecidingFaceRules(cfg, recognition) : channel \in cfg.faceRules[i].names

LEMMA ListsAreLists ==
    \A cfg \in RoutingConfigs : IsList(cfg.rules) /\ IsList(cfg.deterrents) /\ IsList(cfg.faceRules)
BY RoutingAssumption DEF IsList

\* The actions name a channel where the file means it.
LEMMA RulesMeanIt ==
    ASSUME NEW cfg \in RoutingConfigs, NEW class, NEW channel
    PROVE  RuleWants(cfg, class, channel) <=> \E names \in ActionsMeant(cfg, class) : names = {} \/ channel \in names
<1>1. ActionsMeant(cfg, class) = IF cfg.rules = <<>> \/ (class = Press /\ ~cfg.ownCamera)
                                 THEN {{}} ELSE MatchRules(class, cfg.rules)
  BY DEF ActionsMeant, ResolveActions, ActionsOf
<1>2. CASE cfg.rules = <<>> \/ (class = Press /\ ~cfg.ownCamera)
  BY <1>1, <1>2 DEF RuleWants
<1>3. CASE ~ (cfg.rules = <<>> \/ (class = Press /\ ~cfg.ownCamera))
  <2>1. MatchRules(class, cfg.rules) =
           {cfg.rules[i].names : i \in {j \in DOMAIN cfg.rules :
                                     Decides(cfg.rules, LAMBDA r : r.class = class \/ r.class = "*", j)}}
    BY ListsAreLists, MatchedNames
  <2> DEFINE decisive == {j \in DOMAIN cfg.rules :
                             Decides(cfg.rules, LAMBDA r : r.class = class \/ r.class = "*", j)}
  <2>2. RuleWants(cfg, class, channel) <=>
            \E i \in decisive : cfg.rules[i].names = {} \/ channel \in cfg.rules[i].names
    BY <1>3 DEF RuleWants
  <2>3. ActionsMeant(cfg, class) = {cfg.rules[i].names : i \in decisive}
    BY <1>1, <1>3, <2>1
  <2> HIDE DEF decisive
  <2> QED BY <2>2, <2>3
<1> QED BY <1>2, <1>3

LEMMA GroupsMeanIt ==
    ASSUME NEW cfg \in RoutingConfigs, NEW class, NEW group
    PROVE  group \in GroupsOf(class, cfg.deterrents) <=> RuleFires(cfg, class, group)
<1>1. MatchRules(class, cfg.deterrents) =
         {cfg.deterrents[i].names : i \in {j \in DOMAIN cfg.deterrents :
                                   Decides(cfg.deterrents, LAMBDA r : r.class = class \/ r.class = "*", j)}}
  BY ListsAreLists, MatchedNames
<1> QED BY <1>1 DEF GroupsOf, RuleFires

\* The face rules' outcome is the deciding rule, for a recognition or none.
LEMMA FaceOutcome ==
    ASSUME NEW cfg \in RoutingConfigs, NEW recognition, OneAtMost(recognition)
    PROVE  EvaluateFaceRules(recognition, cfg.faceRules) =
               {cfg.faceRules[i] : i \in DecidingFaceRules(cfg, recognition)}
<1> DEFINE rules == cfg.faceRules
           hits == {i \in DOMAIN rules : \E rec \in recognition : Names(rules[i], rec)}
           decisive == DecidingFaceRules(cfg, recognition)
<1>1. IsList(rules)
  BY ListsAreLists
<1>2. \A i \in DOMAIN rules : \A j \in 1 .. i - 1 : j \in DOMAIN rules
  BY <1>1 DEF IsList
<1>3. \A j \in DOMAIN rules : j \in decisive <=> j \in hits /\ \A k \in 1 .. j - 1 : k \notin hits
  BY <1>2 DEF Decides, DecidingFaceRules, OneAtMost
<1>4. EvaluateFaceRules(recognition, rules) = FirstRule(rules, hits)
  BY DEF EvaluateFaceRules
<1>5. hits \subseteq DOMAIN rules /\ decisive \subseteq DOMAIN rules
  BY DEF DecidingFaceRules
<1> HIDE DEF hits, decisive, rules
<1>6. FirstRule(rules, hits) = {rules[i] : i \in decisive}
  BY <1>1, <1>3, <1>5, FirstRuleDecides
<1>7. EvaluateFaceRules(recognition, rules) = {rules[i] : i \in decisive}
  BY <1>4, <1>6
<1> QED BY <1>7 DEF rules, decisive

\* Whom an alert is sent to, judged by the rules of one copy, the face rules of
\* another and the channels of a third.
Meant(byRules, byFaces, byChannels, class, recognition) ==
    {c \in byChannels.channels : IF DecidingFaceRules(byFaces, recognition) # {}
                                 THEN FaceNames(byFaces, recognition, c) ELSE RuleWants(byRules, class, c)}

LEMMA TargetsAreMeant ==
    ASSUME NEW byRules \in RoutingConfigs, NEW byFaces \in RoutingConfigs, NEW byChannels \in RoutingConfigs,
           NEW class, NEW event, event.actions = ActionsMeant(byRules, class),
           NEW recognition, OneAtMost(recognition),
           event.faceRules = byFaces.faceRules
    PROVE  TargetsOf(ApplyFaceRules(event, recognition).actions, byChannels.channels)
               = Meant(byRules, byFaces, byChannels, class, recognition)
<1> DEFINE outcome == EvaluateFaceRules(recognition, byFaces.faceRules)
           decisive == DecidingFaceRules(byFaces, recognition)
           actions == ApplyFaceRules(event, recognition).actions
<1>1. outcome = {byFaces.faceRules[i] : i \in decisive}
  BY FaceOutcome
<1>2. actions = IF outcome = {} THEN ActionsMeant(byRules, class) ELSE UNION {Overruled(r) : r \in outcome}
  BY DEF ApplyFaceRules
<1>3. \A c : c \in TargetsOf(actions, byChannels.channels) <=>
                c \in byChannels.channels /\ \E names \in actions : names = {} \/ c \in names
  BY DEF TargetsOf
<1>4. \A c : FaceNames(byFaces, recognition, c) <=> \E i \in decisive : c \in byFaces.faceRules[i].names
  BY DEF FaceNames
<1> HIDE DEF outcome, decisive, actions
<1>5. CASE outcome = {}
  <2>1. decisive = {}
    BY <1>1, <1>5
  <2>2. \A c : c \in TargetsOf(actions, byChannels.channels)
                  <=> c \in byChannels.channels /\ RuleWants(byRules, class, c)
    BY <1>2, <1>3, <1>5, RulesMeanIt
  <2> QED BY <2>1, <2>2 DEF Meant, actions, decisive
<1>6. CASE outcome # {}
  <2>1. decisive # {}
    BY <1>1, <1>6
  <2>2. \A names : names \in actions <=> \E r \in outcome : names = r.names /\ names # {}
    BY <1>2, <1>6 DEF Overruled
  <2>3. \A c : (\E names \in actions : names = {} \/ c \in names)
                  <=> \E i \in decisive : c \in byFaces.faceRules[i].names
    BY <1>1, <2>2
  <2>4. \A c : c \in TargetsOf(actions, byChannels.channels)
                  <=> c \in byChannels.channels /\ FaceNames(byFaces, recognition, c)
    BY <1>3, <1>4, <2>3
  <2> QED BY <2>1, <2>4 DEF Meant, actions, decisive
<1> QED BY <1>5, <1>6

LEMMA NoneDecides == \A cfg : DecidingFaceRules(cfg, {}) = {}
BY DEF DecidingFaceRules

CopiesTyped ==
    /\ onFile \in RoutingConfigs
    /\ copies \in [detector : RoutingConfigs, faces : RoutingConfigs, notifiers : RoutingConfigs,
                   loading : SUBSET RoutingConfigs]

\* An alert under way knows every copy that anybody goes by, and was made by one of them.
UnderWay ==
    alert.stage \in {"pressed", "published", "buffered"} =>
        InForce \subseteq alert.since /\ alert.since \subseteq RoutingConfigs
IsPressed ==
    alert.stage = "pressed" =>
        /\ alert = [stage |-> "pressed", cfg |-> alert.cfg, since |-> alert.since]
        /\ alert.cfg \in alert.since
IsMade ==
    alert.stage \in {"published", "buffered"} =>
        /\ alert = [stage |-> alert.stage, class |-> alert.class, actions |-> alert.actions,
                    groups |-> alert.groups, faceRules |-> alert.faceRules, since |-> alert.since]
        /\ \E cfg \in alert.since : /\ alert.actions = ActionsMeant(cfg, alert.class)
                                    /\ alert.groups = GroupsMeant(cfg, alert.class)
IsBuffered == alert.stage = "buffered" => \E cfg \in alert.since : alert.faceRules = cfg.faceRules
IsSent ==
    alert.stage = "sent" =>
        /\ alert.since \subseteq RoutingConfigs
        /\ \E byRules \in alert.since, byFaces \in alert.since, byChannels \in alert.since :
              /\ alert.told = Meant(byRules, byFaces, byChannels, alert.class, alert.recognition)
              /\ alert.groups = GroupsMeant(byRules, alert.class)

RoutingInv ==
    /\ CopiesTyped /\ alert.stage \in {"none", "pressed", "published", "buffered", "sent"}
    /\ UnderWay /\ IsPressed /\ IsMade /\ IsBuffered /\ IsSent

LEMMA RoutingStart == RoutingInit => RoutingInv
BY DEF RoutingInit, RoutingInv, CopiesTyped, NoAlert, UnderWay, IsPressed, IsMade, IsBuffered, IsSent

\* A dispatch sends to those that the copies in force mean.
LEMMA DispatchIsMeant ==
    ASSUME RoutingInv, NEW recognition, OneAtMost(recognition), Dispatch(recognition),
           \/ alert.stage = "published" /\ recognition = {}
           \/ alert.stage = "buffered"
    PROVE  RoutingInv'
<1> USE DEF RoutingInv
<1>1. /\ alert'.stage = "sent" /\ alert'.class = alert.class /\ alert'.groups = alert.groups
      /\ alert'.since = alert.since /\ alert'.recognition = recognition
      /\ alert'.told = TargetsOf(ApplyFaceRules(alert, recognition).actions, copies.notifiers.channels)
      /\ UNCHANGED <<onFile, copies>>
  BY DEF Dispatch
<1>2. alert.since \subseteq RoutingConfigs /\ copies.notifiers \in alert.since /\ copies.faces \in alert.since
  BY DEF UnderWay, InForce
<1>3. PICK byRules \in alert.since : /\ alert.actions = ActionsMeant(byRules, alert.class)
                                     /\ alert.groups = GroupsMeant(byRules, alert.class)
  BY DEF IsMade
<1>4. \E byFaces \in alert.since :
         alert'.told = Meant(byRules, byFaces, copies.notifiers, alert.class, recognition)
  <2>1. CASE alert.stage = "buffered"
    <3>1. PICK byFaces \in alert.since : alert.faceRules = byFaces.faceRules
      BY <2>1 DEF IsBuffered
    <3>2. byRules \in RoutingConfigs /\ byFaces \in RoutingConfigs /\ copies.notifiers \in RoutingConfigs
      BY <1>2, <3>1
    <3>3. TargetsOf(ApplyFaceRules(alert, recognition).actions, copies.notifiers.channels)
              = Meant(byRules, byFaces, copies.notifiers, alert.class, recognition)
      BY <1>3, <3>1, <3>2, TargetsAreMeant
    <3> QED BY <1>1, <3>3
  <2>2. CASE recognition = {}
    <3>1. EvaluateFaceRules(recognition, alert.faceRules) = {}
      <4>1. {i \in DOMAIN alert.faceRules : \E rec \in recognition : Names(alert.faceRules[i], rec)} = {}
        BY <2>2
      <4>2. \A rules : FirstRule(rules, {}) = {}
        BY DEF FirstRule
      <4> QED BY <4>1, <4>2 DEF EvaluateFaceRules
    <3>2. ApplyFaceRules(alert, recognition).actions = alert.actions
      BY <3>1 DEF ApplyFaceRules
    <3>3. \A c : c \in TargetsOf(alert.actions, copies.notifiers.channels) <=>
                    c \in copies.notifiers.channels /\ \E names \in alert.actions : names = {} \/ c \in names
      BY DEF TargetsOf
    <3>4. \A c : c \in alert'.told <=> c \in copies.notifiers.channels /\ RuleWants(byRules, alert.class, c)
      <4>1. byRules \in RoutingConfigs
        BY <1>2
      <4>2. \A c : RuleWants(byRules, alert.class, c) <=> \E names \in alert.actions : names = {} \/ c \in names
        BY <1>3, <4>1, RulesMeanIt
      <4>3. alert'.told = TargetsOf(alert.actions, copies.notifiers.channels)
        BY <1>1, <3>2
      <4> QED BY <3>3, <4>2, <4>3
    <3>5. DecidingFaceRules(copies.faces, recognition) = {}
      BY <2>2, NoneDecides
    <3>6. \A c : c \in Meant(byRules, copies.faces, copies.notifiers, alert.class, recognition)
                    <=> c \in copies.notifiers.channels /\ RuleWants(byRules, alert.class, c)
      BY <3>5 DEF Meant
    <3>7. \A c : c \in alert'.told => c \in copies.notifiers.channels
      BY <3>4
    <3>8. alert'.told = Meant(byRules, copies.faces, copies.notifiers, alert.class, recognition)
      BY <1>1, <3>2, <3>4, <3>6 DEF TargetsOf
    <3> QED BY <1>2, <3>8
  <2> QED BY <2>1, <2>2
<1>5. IsSent'
  BY <1>1, <1>2, <1>3, <1>4 DEF IsSent
<1> QED BY <1>1, <1>5 DEF CopiesTyped, UnderWay, IsPressed, IsMade, IsBuffered

LEMMA RoutingStep == ASSUME RoutingInv, [RoutingNext]_routingVars PROVE RoutingInv'
<1> USE DEF RoutingInv
<1>1. ASSUME NEW class \in AlertClasses, Detect(class) PROVE RoutingInv'
  <2>1. /\ UNCHANGED <<onFile, copies>>
        /\ alert' = Published(class, ActionsOf(class, copies.detector.rules),
                              GroupsOf(class, copies.detector.deterrents), InForce)
    BY <1>1 DEF Detect, ReadCameraRules
  <2>2. class # Press
    BY RoutingAssumption
  <2>3. InForce \subseteq RoutingConfigs /\ copies.detector \in InForce /\ InForce' = InForce
    BY <2>1 DEF InForce, CopiesTyped
  <2>4. /\ alert'.stage = "published" /\ alert'.since = InForce /\ alert'.class = class
        /\ alert'.actions = ActionsMeant(copies.detector, class)
        /\ alert'.groups = GroupsMeant(copies.detector, class)
        /\ alert' = [stage |-> alert'.stage, class |-> alert'.class, actions |-> alert'.actions,
                     groups |-> alert'.groups, faceRules |-> alert'.faceRules, since |-> alert'.since]
    BY <2>1, <2>2 DEF Published, ActionsMeant, GroupsMeant
  <2> QED BY <2>1, <2>3, <2>4 DEF CopiesTyped, UnderWay, IsPressed, IsMade, IsBuffered, IsSent
<1>2. CASE PressArrives
  <2>1. /\ UNCHANGED <<onFile, copies>> /\ alert' = [stage |-> "pressed", cfg |-> onFile, since |-> InForce]
    BY <1>2 DEF PressArrives
  <2>2. InForce \subseteq RoutingConfigs /\ onFile \in InForce /\ InForce' = InForce
    BY <2>1 DEF InForce, CopiesTyped
  <2> QED BY <2>1, <2>2 DEF CopiesTyped, UnderWay, IsPressed, IsMade, IsBuffered, IsSent
<1>3. CASE PressPublished
  <2>1. /\ UNCHANGED <<onFile, copies>> /\ alert.stage = "pressed"
        /\ alert' = Published(Press, ResolveActions(alert.cfg), {}, alert.since)
    BY <1>3 DEF PressPublished
  <2>2. InForce \subseteq alert.since /\ alert.since \subseteq RoutingConfigs /\ alert.cfg \in alert.since
    BY <2>1 DEF UnderWay, IsPressed
  <2>3. /\ alert'.stage = "published" /\ alert'.since = alert.since /\ alert'.class = Press
        /\ alert'.actions = ActionsMeant(alert.cfg, Press)
        /\ alert'.groups = GroupsMeant(alert.cfg, Press)
        /\ alert' = [stage |-> alert'.stage, class |-> alert'.class, actions |-> alert'.actions,
                     groups |-> alert'.groups, faceRules |-> alert'.faceRules, since |-> alert'.since]
    BY <2>1 DEF Published, ActionsMeant, GroupsMeant
  <2>4. InForce' = InForce
    BY <2>1 DEF InForce
  <2> QED BY <2>1, <2>2, <2>3, <2>4 DEF CopiesTyped, UnderWay, IsPressed, IsMade, IsBuffered, IsSent
<1>4. CASE ReceiveDirect
  BY <1>4, DispatchIsMeant DEF ReceiveDirect, OneAtMost
<1>5. CASE ReceiveBuffered
  <2>1. /\ UNCHANGED <<onFile, copies>> /\ alert.stage = "published"
        /\ alert' = [[alert EXCEPT !.stage = "buffered"] EXCEPT !.faceRules = copies.faces.faceRules]
    BY <1>5 DEF ReceiveBuffered
  <2>2. /\ alert' = [stage |-> "buffered", class |-> alert.class, actions |-> alert.actions,
                     groups |-> alert.groups, faceRules |-> copies.faces.faceRules, since |-> alert.since]
    BY <2>1 DEF IsMade
  <2>3. copies.faces \in alert.since /\ InForce' = InForce
    BY <2>1 DEF UnderWay, InForce
  <2>4. alert' = [stage |-> alert'.stage, class |-> alert'.class, actions |-> alert'.actions,
                  groups |-> alert'.groups, faceRules |-> alert'.faceRules, since |-> alert'.since]
    BY <2>2
  <2> QED BY <2>1, <2>2, <2>3, <2>4 DEF CopiesTyped, UnderWay, IsPressed, IsMade, IsBuffered, IsSent
<1>6. ASSUME NEW rec \in Recognitions, Recognized(rec) PROVE RoutingInv'
  <2>1. Dispatch({rec}) /\ alert.stage = "buffered" /\ OneAtMost({rec})
    BY <1>6 DEF Recognized, OneAtMost
  <2> QED BY <2>1, DispatchIsMeant
<1>7. CASE CoalesceTimeout
  BY <1>7, DispatchIsMeant DEF CoalesceTimeout, OneAtMost
<1>8. CASE NextAlert
  <2>1. UNCHANGED <<onFile, copies>> /\ alert' = [stage |-> "none"]
    BY <1>8 DEF NextAlert, NoAlert
  <2> QED BY <2>1 DEF CopiesTyped, UnderWay, IsPressed, IsMade, IsBuffered, IsSent
<1>9. ASSUME NEW cfg \in RoutingConfigs, SaveFile(cfg) PROVE RoutingInv'
  <2>1. /\ onFile' = cfg /\ UNCHANGED copies
        /\ alert' = IF alert.stage \in {"pressed", "published", "buffered"}
                    THEN [alert EXCEPT !.since = alert.since \union {cfg}] ELSE alert
    BY <1>9 DEF SaveFile
  <2>2. CopiesTyped'
    BY <2>1 DEF CopiesTyped
  <2>3. InForce' \subseteq InForce \union {cfg}
    BY <2>1 DEF InForce
  <2>4. CASE alert.stage \notin {"pressed", "published", "buffered"}
    BY <2>1, <2>2, <2>4 DEF UnderWay, IsPressed, IsMade, IsBuffered, IsSent
  <2>5. CASE alert.stage = "pressed"
    <3>1. alert' = [stage |-> "pressed", cfg |-> alert.cfg, since |-> alert.since \union {cfg}]
      BY <2>1, <2>5 DEF IsPressed
    <3> QED BY <2>2, <2>3, <2>5, <3>1 DEF UnderWay, IsPressed, IsMade, IsBuffered, IsSent
  <2>6. CASE alert.stage \in {"published", "buffered"}
    <3>1. alert' = [stage |-> alert.stage, class |-> alert.class, actions |-> alert.actions,
                    groups |-> alert.groups, faceRules |-> alert.faceRules, since |-> alert.since \union {cfg}]
      BY <2>1, <2>6 DEF IsMade
    <3>2. /\ alert'.stage = alert.stage /\ alert'.since = alert.since \union {cfg}
          /\ alert'.class = alert.class /\ alert'.actions = alert.actions /\ alert'.groups = alert.groups
          /\ alert'.faceRules = alert.faceRules
      BY <3>1
    <3>3. UnderWay'
      BY <2>3, <2>6, <3>2 DEF UnderWay
    <3>4. IsMade'
      BY <2>6, <3>1, <3>2 DEF IsMade
    <3>5. IsBuffered'
      BY <2>6, <3>2 DEF IsBuffered
    <3> QED BY <2>2, <2>6, <3>2, <3>3, <3>4, <3>5 DEF IsPressed, IsSent
  <2> QED BY <2>4, <2>5, <2>6
<1>10. CASE DetectorReloads \/ NotifierTakesFaces \/ NotifierReplacesChannels
  <2>1. /\ UNCHANGED <<onFile, alert>>
        /\ \/ copies' = [copies EXCEPT !.detector = onFile]
           \/ copies' = [[copies EXCEPT !.faces = onFile] EXCEPT !.loading = {onFile}]
           \/ \E cfg \in copies.loading : copies' = [[copies EXCEPT !.notifiers = cfg] EXCEPT !.loading = {}]
    BY <1>10 DEF DetectorReloads, NotifierTakesFaces, NotifierReplacesChannels
  <2>2. /\ onFile' = onFile
        /\ copies' \in [detector : RoutingConfigs, faces : RoutingConfigs, notifiers : RoutingConfigs,
                        loading : SUBSET RoutingConfigs]
        /\ {copies'.detector, copies'.faces, copies'.notifiers} \cup copies'.loading \subseteq InForce
    <3>1. CASE copies' = [copies EXCEPT !.detector = onFile]
      BY <2>1, <3>1 DEF CopiesTyped, InForce
    <3>2. CASE copies' = [[copies EXCEPT !.faces = onFile] EXCEPT !.loading = {onFile}]
      BY <2>1, <3>2 DEF CopiesTyped, InForce
    <3>3. ASSUME NEW cfg \in copies.loading, copies' = [[copies EXCEPT !.notifiers = cfg] EXCEPT !.loading = {}]
          PROVE  /\ copies' \in [detector : RoutingConfigs, faces : RoutingConfigs, notifiers : RoutingConfigs,
                               loading : SUBSET RoutingConfigs]
                 /\ {copies'.detector, copies'.faces, copies'.notifiers} \cup copies'.loading \subseteq InForce
      <4>1. cfg \in RoutingConfigs
        BY DEF CopiesTyped
      <4> QED BY <2>1, <3>3, <4>1 DEF CopiesTyped, InForce
    <3> QED BY <2>1, <3>1, <3>2, <3>3
  <2>3. CopiesTyped' /\ InForce' \subseteq InForce
    BY <2>2 DEF InForce, CopiesTyped
  <2> QED BY <2>1, <2>3 DEF UnderWay, IsPressed, IsMade, IsBuffered, IsSent
<1>11. CASE UNCHANGED routingVars
  <2>1. UNCHANGED <<onFile, copies, alert>> /\ InForce' = InForce
    BY <1>11 DEF routingVars, InForce
  <2> QED BY <2>1 DEF CopiesTyped, UnderWay, IsPressed, IsMade, IsBuffered, IsSent
<1> QED BY <1>1, <1>2, <1>3, <1>4, <1>5, <1>6, <1>7, <1>8, <1>9, <1>10, <1>11 DEF RoutingNext

LEMMA RoutingInvSuffices == RoutingInv => RoutingHolds
<1> SUFFICES ASSUME RoutingInv PROVE RoutingHolds
  OBVIOUS
<1> USE DEF RoutingInv
<1>1. RoutingTypeOK
  BY DEF RoutingTypeOK, CopiesTyped, InForce
<1>2. ASSUME alert.stage = "sent" PROVE
         \E byRules \in alert.since, byFaces \in alert.since, byChannels \in alert.since :
            /\ {byRules, byFaces, byChannels} \subseteq RoutingConfigs
            /\ \A c : c \in alert.told <=>
                  /\ c \in byChannels.channels
                  /\ IF DecidingFaceRules(byFaces, alert.recognition) # {}
                     THEN FaceWants(byFaces, c) ELSE RuleWants(byRules, alert.class, c)
            /\ alert.told \subseteq byChannels.channels
            /\ \A g : g \in alert.groups <=> alert.class # Press /\ RuleFires(byRules, alert.class, g)
  <2>1. PICK byRules \in alert.since, byFaces \in alert.since, byChannels \in alert.since :
              /\ alert.told = Meant(byRules, byFaces, byChannels, alert.class, alert.recognition)
              /\ alert.groups = GroupsMeant(byRules, alert.class)
    BY <1>2 DEF IsSent
  <2>2. {byRules, byFaces, byChannels} \subseteq RoutingConfigs
    BY <1>2 DEF IsSent
  <2>3. \A c : c \in alert.told <=>
                  /\ c \in byChannels.channels
                  /\ IF DecidingFaceRules(byFaces, alert.recognition) # {}
                     THEN FaceWants(byFaces, c) ELSE RuleWants(byRules, alert.class, c)
    BY <2>1 DEF Meant, FaceNames, FaceWants
  <2>4. \A g : g \in alert.groups <=> alert.class # Press /\ RuleFires(byRules, alert.class, g)
    BY <2>1, <2>2, GroupsMeanIt DEF GroupsMeant
  <2>5. alert.told \subseteq byChannels.channels
    BY <2>3
  <2> QED BY <2>2, <2>3, <2>4, <2>5
<1>3. SettledRoutes
  <2> SUFFICES ASSUME alert.stage = "sent", NEW cfg \in RoutingConfigs, alert.since = {cfg}
               PROVE  /\ alert.told = {c \in cfg.channels :
                             IF DecidingFaceRules(cfg, alert.recognition) # {}
                             THEN FaceWants(cfg, c) ELSE RuleWants(cfg, alert.class, c)}
                      /\ alert.class # Press => \A g \in GroupsNamed(cfg) :
                                                  g \in alert.groups <=> RuleFires(cfg, alert.class, g)
    BY DEF SettledRoutes
  <2>1. /\ \A c : c \in alert.told <=>
              /\ c \in cfg.channels
              /\ IF DecidingFaceRules(cfg, alert.recognition) # {}
                 THEN FaceWants(cfg, c) ELSE RuleWants(cfg, alert.class, c)
        /\ alert.told \subseteq cfg.channels
        /\ \A g : g \in alert.groups <=> alert.class # Press /\ RuleFires(cfg, alert.class, g)
    BY <1>2
  <2> QED BY <2>1
<1>4. RecipientsWereMeant
  BY <1>2 DEF RecipientsWereMeant
<1> QED BY <1>1, <1>3, <1>4 DEF RoutingHolds

\* While nobody saves, an alert goes to exactly the channels the file means for it, and fires the
\* groups it means; whatever is saved meanwhile, to none that no file in force since asks for.  For any
\* files, rules, classes and recognitions.
THEOREM AlertsGoWhereMeant == RoutingSpec => []RoutingHolds
<1>1. RoutingInv /\ [RoutingNext]_routingVars => RoutingInv'
  BY RoutingStep
<1> QED BY <1>1, RoutingStart, RoutingInvSuffices, PTL DEF RoutingSpec

-----------------------------------------------------------------------------
(* The digest of the day.                                                  *)

\* A later instant is not on an earlier day.
LEMMA DaysRise ==
    ASSUME NEW a \in Nat, NEW b \in Nat, a <= b, NEW n \in Nat \ {0}
    PROVE  a \div n \in Nat /\ b \div n \in Nat /\ a \div n <= b \div n
OBVIOUS

\* The dates of the instants up to the last one.
LEMMA DatesRise ==
    ASSUME NEW h \in 0 .. LastInstant, NEW k \in h .. LastInstant, NEW z \in Timezones
    PROVE  DateAt(h, z) \in Dates /\ DateAt(k, z) \in Dates /\ DateAt(h, z) <= DateAt(k, z)
<1>1. /\ h + z + DayLength \in Nat /\ k + z + DayLength \in Nat /\ DayLength \in Nat \ {0}
      /\ h + z + DayLength <= k + z + DayLength /\ k + z + DayLength <= LastInstant + 2 * DayLength
      /\ LastInstant + 2 * DayLength \in Nat
  BY DigestAssumption
<1>2. (h + z + DayLength) \div DayLength <= (k + z + DayLength) \div DayLength
  BY <1>1, DaysRise
<1>3. (k + z + DayLength) \div DayLength <= (LastInstant + 2 * DayLength) \div DayLength
  BY <1>1, DaysRise
<1>4. (h + z + DayLength) \div DayLength \in Nat /\ (k + z + DayLength) \div DayLength \in Nat
  BY <1>1, DaysRise
<1>5. (LastInstant + 2 * DayLength) \div DayLength \in Nat
  BY <1>1, DaysRise
<1> QED BY <1>2, <1>3, <1>4, <1>5 DEF DateAt, Dates

Today == DateAt(instant, zone)
Latest == IF sending.phase = "send" THEN sending.date ELSE lastSent

DigestTyped ==
    /\ instant \in 0 .. LastInstant /\ trouble \in 0 .. MaxDigestFaults
    /\ woken \in BOOLEAN /\ quiet \in BOOLEAN /\ calm \in BOOLEAN
    /\ report \in ReportSettings /\ zone \in Timezones /\ notifiers \subseteq Channels
    /\ reload = NoReload \/ reload \in Reloads
    /\ lastSent \in Dates \union {NoDate}
    /\ sending \in [phase : {"idle", "generate", "send"}, date : Dates \union {NoDate},
                   channels : SUBSET Channels, left : SUBSET Channels]
    /\ sending.left \subseteq sending.channels
    /\ sending.phase # "idle" => sending.date \in Dates
    /\ delivered \in [Dates -> SUBSET Channels]
CountsTyped == issued \in [Dates -> Nat]

\* No report is dispatched for a date after the latest one, and that has one.
IssuedInTurn ==
    /\ calm => \A d \in Dates : issued[d] <= 1 /\ (issued[d] > 0 => d <= Latest)
    /\ sending.phase = "send" => issued[sending.date] > 0
    /\ lastSent # NoDate => issued[lastSent] > 0

\* What is at hand is later than what was sent, and of the day of the tick that began it.
AtHandIsNew ==
    calm => /\ lastSent <= Today
            /\ sending.phase # "idle" => /\ lastSent < sending.date /\ sending.date <= Today
                                         /\ woken => sending.date = Today

\* After its tick an instant that is due has its report dispatched or at hand.
TickServes ==
    quiet /\ calm /\ woken /\ Due(report, instant, zone) => issued[Today] > 0 \/ sending.phase # "idle"

DigestInv == DigestTyped /\ CountsTyped /\ IssuedInTurn /\ AtHandIsNew /\ TickServes

LEMMA DatesAreNaturals ==
    /\ Dates \subseteq Nat /\ NoDate \in Int /\ \A d \in Dates : NoDate < d
    /\ NoDate \notin Dates /\ \A d \in Dates \union {NoDate} : d \in Int
BY DEF Dates, NoDate

LEMMA DigestStart == DigestInit => DigestInv
<1> SUFFICES ASSUME DigestInit PROVE DigestInv
  OBVIOUS
<1>0. 0 \in 0 .. LastInstant /\ 0 \in 0 .. MaxDigestFaults /\ 0 \in Nat
  BY DigestAssumption
<1>1. sending = NothingToSend /\ lastSent = NoDate /\ reload = NoReload /\ instant = 0 /\ trouble = 0
      /\ woken = FALSE /\ quiet = TRUE /\ calm = TRUE /\ report \in ReportSettings /\ zone \in Timezones
      /\ notifiers = Channels /\ delivered = [d \in Dates |-> {}] /\ issued = [d \in Dates |-> 0]
  BY DEF DigestInit
<1>2. DigestTyped
  <2>1. /\ instant \in 0 .. LastInstant /\ trouble \in 0 .. MaxDigestFaults
        /\ notifiers \subseteq Channels /\ delivered \in [Dates -> SUBSET Channels]
    BY <1>0, <1>1
  <2>2. /\ woken \in BOOLEAN /\ quiet \in BOOLEAN /\ calm \in BOOLEAN
    BY <1>1, Zenon
  <2>3. /\ sending \in [phase : {"idle", "generate", "send"}, date : Dates \union {NoDate},
                       channels : SUBSET Channels, left : SUBSET Channels]
        /\ sending.left \subseteq sending.channels /\ sending.phase = "idle"
    BY <1>1 DEF NothingToSend
  <2> QED BY <1>1, <2>1, <2>2, <2>3 DEF DigestTyped
<1>3. CountsTyped
  BY <1>1 DEF CountsTyped
<1>4. IssuedInTurn
  BY <1>1 DEF IssuedInTurn, Latest, NothingToSend
<1>5. AtHandIsNew
  <2>1. Today \in Dates
    BY <1>0, <1>1, DatesRise DEF Today
  <2> QED BY <1>1, <2>1, DatesAreNaturals DEF AtHandIsNew, NothingToSend
<1>6. TickServes
  BY <1>1 DEF TickServes
<1> QED BY <1>2, <1>3, <1>4, <1>5, <1>6 DEF DigestInv

LEMMA DigestStep == ASSUME DigestInv, [DigestNext]_digestVars PROVE DigestInv'
<1> USE DEF DigestInv
<1>0. Today \in Dates /\ Today \in Int /\ lastSent \in Int /\ sending.date \in Int
  <2>1. Today \in Dates
    BY DatesRise DEF Today, DigestTyped
  <2>2. lastSent \in Dates \union {NoDate} /\ sending.date \in Dates \union {NoDate}
    BY DEF DigestTyped
  <2> QED BY <2>1, <2>2, DatesAreNaturals
<1>1. CASE DigestTick
  <2>1. DigestTyped'
    <3>1. report.channels \subseteq Channels
      BY DEF DigestTyped, ReportSettings
    <3>2. sending' = sending \/ sending' = [phase |-> "generate", date |-> Today, channels |-> report.channels, left |-> {}]
      BY <1>1 DEF DigestTick, Today
    <3>3. /\ sending' \in [phase : {"idle", "generate", "send"}, date : Dates \union {NoDate},
                          channels : SUBSET Channels, left : SUBSET Channels]
          /\ sending'.left \subseteq sending'.channels
          /\ sending'.phase # "idle" => sending'.date \in Dates
      BY <1>0, <3>1, <3>2 DEF DigestTyped
    <3>4. woken' \in BOOLEAN
      BY <1>1, Zenon DEF DigestTick
    <3> QED BY <1>1, <3>3, <3>4 DEF DigestTick, DigestTyped
  <2>2. CountsTyped'
    BY <1>1 DEF DigestTick, CountsTyped
  <2>3. IssuedInTurn'
    BY <1>1 DEF DigestTick, IssuedInTurn, Latest
  <2>4. AtHandIsNew'
    <3>1. \/ sending' = sending /\ sending.phase = "idle"
          \/ sending'.date = Today /\ lastSent # Today
      BY <1>1 DEF DigestTick, Today
    <3>2. Today' = Today /\ calm' = calm /\ lastSent' = lastSent
      BY <1>1 DEF DigestTick, Today
    <3> QED BY <1>0, <3>1, <3>2 DEF AtHandIsNew
  <2>5. TickServes'
    BY <1>1, <1>0 DEF DigestTick, TickServes, Today, IssuedInTurn, DigestTyped, NoDate, Dates
  <2> QED BY <2>1, <2>2, <2>3, <2>4, <2>5
<1>2. CASE GenerateFails
  <2>1. DigestTyped'
    <3>1. trouble' \in 0 .. MaxDigestFaults /\ quiet' \in BOOLEAN
      <4>1. trouble' \in 0 .. MaxDigestFaults
        BY <1>2, DigestAssumption DEF GenerateFails, DigestTyped
      <4>2. quiet' \in BOOLEAN
        BY <1>2, Zenon DEF GenerateFails
      <4> QED BY <4>1, <4>2
    <3> QED BY <1>2, <3>1 DEF GenerateFails, DigestTyped, NothingToSend
  <2>2. CountsTyped'
    BY <1>2 DEF GenerateFails, CountsTyped
  <2>3. IssuedInTurn'
    BY <1>2 DEF GenerateFails, IssuedInTurn, Latest, NothingToSend
  <2>4. AtHandIsNew'
    BY <1>2, <1>0, DatesAreNaturals DEF GenerateFails, AtHandIsNew, Today, DigestTyped, NothingToSend
  <2>5. TickServes'
    BY <1>2 DEF GenerateFails, TickServes
  <2> QED BY <2>1, <2>2, <2>3, <2>4, <2>5
<1>3. CASE Dispatched
  <2>1. DigestTyped'
    BY <1>3 DEF Dispatched, DigestTyped
  <2>2. CountsTyped'
    BY <1>3 DEF Dispatched, CountsTyped, DigestTyped
  <2>3. sending.date \in Dates /\ sending'.phase = "send" /\ sending'.date = sending.date
    BY <1>3 DEF Dispatched, DigestTyped
  <2>4. IssuedInTurn'
    <3>1. /\ issued'[sending.date] = issued[sending.date] + 1 /\ issued[sending.date] \in Nat
          /\ \A d \in Dates : d # sending.date => issued'[d] = issued[d]
      BY <1>3, <2>3 DEF Dispatched, CountsTyped
    <3>2. ASSUME calm', NEW d \in Dates
          PROVE  issued'[d] <= 1 /\ (issued'[d] > 0 => d <= sending.date)
      <4>1. calm /\ lastSent < sending.date /\ sending.phase = "generate"
        BY <1>3, <3>2 DEF Dispatched, AtHandIsNew
      <4>2. issued[d] <= 1 /\ (issued[d] > 0 => d <= lastSent) /\ issued[d] \in Nat
            /\ (issued[sending.date] > 0 => sending.date <= lastSent)
        BY <4>1, <2>3 DEF IssuedInTurn, Latest, CountsTyped
      <4>3. d \in Int /\ lastSent \in Int /\ sending.date \in Int
        BY <1>0, DatesAreNaturals
      <4> QED BY <4>1, <4>2, <4>3, <3>1
    <3>3. lastSent' = lastSent /\ (lastSent # NoDate => lastSent \in Dates)
      BY <1>3 DEF Dispatched, DigestTyped
    <3>4. lastSent # NoDate => issued'[lastSent] > 0
      BY <3>1, <3>3 DEF IssuedInTurn, CountsTyped
    <3> QED BY <2>3, <3>1, <3>2, <3>3, <3>4 DEF IssuedInTurn, Latest
  <2>5. AtHandIsNew'
    BY <1>3, <2>3 DEF Dispatched, AtHandIsNew, Today
  <2>6. TickServes'
    BY <1>3, <2>3 DEF TickServes
  <2> QED BY <2>1, <2>2, <2>4, <2>5, <2>6
<1>4. CASE MarkSent
  <2>1. DigestTyped'
    BY <1>4 DEF MarkSent, DigestTyped, Marked, NothingToSend
  <2>2. CountsTyped'
    BY <1>4 DEF MarkSent, CountsTyped
  <2>3. IssuedInTurn'
    BY <1>4 DEF MarkSent, IssuedInTurn, Latest, Marked, NothingToSend
  <2>4. AtHandIsNew'
    BY <1>4 DEF MarkSent, AtHandIsNew, Today, Marked, NothingToSend
  <2>5. TickServes'
    BY <1>4, <1>0 DEF MarkSent, TickServes, AtHandIsNew, IssuedInTurn, Today, NothingToSend
  <2> QED BY <2>1, <2>2, <2>3, <2>4, <2>5
<1>5. ASSUME NEW c \in Channels, ChannelSends(c) PROVE DigestInv'
  <2>1. DigestTyped'
    BY <1>5 DEF ChannelSends, DigestTyped
  <2>2. CountsTyped'
    BY <1>5 DEF ChannelSends, CountsTyped
  <2>3. sending'.phase = sending.phase /\ sending'.date = sending.date
    BY <1>5 DEF ChannelSends, DigestTyped
  <2>4. IssuedInTurn'
    BY <1>5, <2>3 DEF ChannelSends, IssuedInTurn, Latest
  <2>5. AtHandIsNew'
    BY <1>5, <2>3 DEF ChannelSends, AtHandIsNew, Today
  <2>6. TickServes'
    BY <1>5, <2>3 DEF ChannelSends, TickServes, Today
  <2> QED BY <2>1, <2>2, <2>4, <2>5, <2>6
<1>6. ASSUME NEW c \in Channels, ChannelRaises(c) PROVE DigestInv'
  <2>1. DigestTyped'
    BY <1>6, DigestAssumption DEF ChannelRaises, DigestTyped
  <2>2. CountsTyped'
    BY <1>6 DEF ChannelRaises, CountsTyped
  <2>3. sending'.phase = sending.phase /\ sending'.date = sending.date
    BY <1>6 DEF ChannelRaises, DigestTyped
  <2>4. IssuedInTurn'
    BY <1>6, <2>3 DEF ChannelRaises, IssuedInTurn, Latest
  <2>5. AtHandIsNew'
    BY <1>6, <2>3 DEF ChannelRaises, AtHandIsNew, Today
  <2>6. TickServes'
    BY <1>6, <2>3 DEF ChannelRaises, TickServes, Today
  <2> QED BY <2>1, <2>2, <2>4, <2>5, <2>6
<1>7. CASE TimePasses
  <2>1. DigestTyped'
    <3>1. instant' \in 0 .. LastInstant /\ woken' \in BOOLEAN
      <4>1. instant' \in 0 .. LastInstant
        BY <1>7, DigestAssumption DEF TimePasses, DigestTyped
      <4>2. woken' \in BOOLEAN
        BY <1>7, Zenon DEF TimePasses
      <4> QED BY <4>1, <4>2
    <3>2. quiet' \in BOOLEAN
      BY <1>7 DEF TimePasses, DigestTyped
    <3> QED BY <1>7, <3>1, <3>2 DEF TimePasses, DigestTyped
  <2>2. CountsTyped'
    BY <1>7 DEF TimePasses, CountsTyped
  <2>3. IssuedInTurn'
    BY <1>7 DEF TimePasses, IssuedInTurn, Latest
  <2>4. AtHandIsNew'
    <3>1. instant \in 0 .. LastInstant /\ instant' \in instant .. LastInstant /\ zone \in Timezones /\ zone' = zone
      BY <1>7, DigestAssumption DEF TimePasses, DigestTyped
    <3>2. Today <= Today' /\ Today' \in Dates
      BY <3>1, DatesRise DEF Today
    <3>3. Today \in Int /\ Today' \in Int /\ lastSent \in Int /\ (sending.phase # "idle" => sending.date \in Int)
      BY <1>0, <3>2, DatesAreNaturals
    <3>4. sending' = sending /\ lastSent' = lastSent /\ calm' = calm /\ ~ woken'
      BY <1>7 DEF TimePasses
    <3> QED BY <3>2, <3>3, <3>4 DEF AtHandIsNew
  <2>5. TickServes'
    BY <1>7 DEF TimePasses, TickServes
  <2> QED BY <2>1, <2>2, <2>3, <2>4, <2>5
<1>8. CASE RebuildNotifiers
  <2>1. PICK s \in ReportSettings, z \in Timezones, built \in SUBSET Channels :
            reload' = [pending |-> TRUE, report |-> s, zone |-> z] /\ notifiers' = built
    BY <1>8 DEF RebuildNotifiers
  <2>2. DigestTyped'
    <3>1. reload' \in Reloads /\ notifiers' \subseteq Channels
      BY <2>1 DEF Reloads
    <3>2. trouble' \in 0 .. MaxDigestFaults
      BY <1>8, DigestAssumption DEF RebuildNotifiers, DigestTyped
    <3>3. quiet' \in BOOLEAN
      BY <1>8, Zenon DEF RebuildNotifiers
    <3> QED BY <1>8, <3>1, <3>2, <3>3 DEF RebuildNotifiers, DigestTyped
  <2>3. CountsTyped'
    BY <1>8 DEF RebuildNotifiers, CountsTyped
  <2>4. IssuedInTurn'
    BY <1>8 DEF RebuildNotifiers, IssuedInTurn, Latest
  <2>5. AtHandIsNew'
    BY <1>8 DEF RebuildNotifiers, AtHandIsNew, Today
  <2>6. TickServes'
    BY <1>8 DEF RebuildNotifiers, TickServes
  <2> QED BY <2>2, <2>3, <2>4, <2>5, <2>6
<1>9. CASE ConfigureDigest
  <2>1. reload \in Reloads
    BY <1>9 DEF ConfigureDigest, DigestTyped, NoReload
  <2>2. DigestTyped'
    <3>1. report' \in ReportSettings /\ zone' \in Timezones /\ reload' = NoReload
      BY <1>9, <2>1 DEF ConfigureDigest, Reloads
    <3>2. calm' \in BOOLEAN
      BY <1>9 DEF ConfigureDigest, DigestTyped
    <3>3. quiet' \in BOOLEAN
      BY <1>9, Zenon DEF ConfigureDigest
    <3> QED BY <1>9, <3>1, <3>2, <3>3 DEF ConfigureDigest, DigestTyped
  <2>3. CountsTyped'
    BY <1>9 DEF ConfigureDigest, CountsTyped
  <2>4. IssuedInTurn'
    BY <1>9 DEF ConfigureDigest, IssuedInTurn, Latest
  <2>5. AtHandIsNew'
    <3>1. calm' => calm /\ zone' = zone
      BY <1>9 DEF ConfigureDigest, DigestTyped
    <3> QED BY <1>9, <3>1 DEF ConfigureDigest, AtHandIsNew, Today
  <2>6. TickServes'
    BY <1>9 DEF ConfigureDigest, TickServes
  <2> QED BY <2>2, <2>3, <2>4, <2>5, <2>6
<1>10. CASE NotifierRestarts
  <2>1. /\ report' \in ReportSettings /\ zone' \in Timezones
    <3>1. CASE reload.pending
      <4>1. reload \in Reloads
        BY <3>1 DEF DigestTyped, NoReload
      <4> QED BY <1>10, <3>1, <4>1 DEF NotifierRestarts, Reloads
    <3>2. CASE ~ reload.pending
      BY <1>10, <3>2 DEF NotifierRestarts, DigestTyped
    <3> QED BY <3>1, <3>2
  <2>2. DigestTyped'
    <3>1. trouble' \in 0 .. MaxDigestFaults
      BY <1>10, DigestAssumption DEF NotifierRestarts, DigestTyped
    <3>2. /\ woken' \in BOOLEAN /\ quiet' \in BOOLEAN /\ calm' \in BOOLEAN
      BY <1>10, Zenon DEF NotifierRestarts
    <3>3. sending' = NothingToSend /\ lastSent' = NoDate /\ reload' = NoReload
          /\ UNCHANGED <<instant, notifiers, delivered>>
      BY <1>10 DEF NotifierRestarts
    <3> QED BY <2>1, <3>1, <3>2, <3>3 DEF DigestTyped, NothingToSend
  <2>3. CountsTyped'
    BY <1>10 DEF NotifierRestarts, CountsTyped
  <2>4. IssuedInTurn'
    BY <1>10 DEF NotifierRestarts, IssuedInTurn, NothingToSend
  <2>5. AtHandIsNew'
    BY <1>10 DEF NotifierRestarts, AtHandIsNew
  <2>6. TickServes'
    BY <1>10 DEF NotifierRestarts, TickServes
  <2> QED BY <2>2, <2>3, <2>4, <2>5, <2>6
<1>11. CASE UNCHANGED digestVars
  BY <1>11 DEF digestVars, DigestTyped, CountsTyped, IssuedInTurn, AtHandIsNew, TickServes, Today, Latest
<1> QED
  BY <1>1, <1>2, <1>3, <1>4, <1>5, <1>6, <1>7, <1>8, <1>9, <1>10, <1>11 DEF DigestNext

LEMMA DigestInvSuffices == DigestInv => DigestHolds
<1> SUFFICES ASSUME DigestInv PROVE DigestHolds
  OBVIOUS
<1>1. DigestTypeOK
  BY DEF DigestInv, DigestTyped, DigestTypeOK
<1>2. OneDigestADay
  BY DEF DigestInv, IssuedInTurn, OneDigestADay
<1>3. EndedDayHasItsDigest
  BY DEF DigestInv, TickServes, EndedDayHasItsDigest, Today
<1> QED BY <1>1, <1>2, <1>3 DEF DigestHolds

\* Whatever fails, a date has one digest at most while the notifier is not restarted and its timezone
\* stays, and a quiet day on which one was due has it when it ends.  For any timezones, times and spans.
THEOREM DigestIsSentOnce == DigestSpec => []DigestHolds
<1>1. DigestInit => DigestInv
  BY DigestStart
<1>2. DigestInv /\ [DigestNext]_digestVars => DigestInv'
  BY DigestStep
<1>3. DigestInv => DigestHolds
  BY DigestInvSuffices
<1> QED BY <1>1, <1>2, <1>3, PTL DEF DigestSpec

-----------------------------------------------------------------------------
(* What the digest says.                                                   *)

Between(rows, lo, hi) == {r \in rows : lo <= r.at /\ r.at < hi}
OneRowEach(rows) == \A r, s \in rows : r.at = s.at /\ r.class = s.class => r = s

\* Every row is counted in one class.
LEMMA ClassesPartition ==
    ASSUME NEW W, IsFiniteSet(W), IsFiniteSet(Classes), \A r \in W : r.class \in Classes,
           NEW f, f = [c \in Classes |-> Cardinality({r \in W : r.class = c})]
    PROVE  SumFunctionOnSet(f, Classes) = Cardinality(W)
<1> DEFINE Of(s) == {r \in W : r.class \in s}
<1>a. \A s \in SUBSET Classes : IsFiniteSet(s) /\ Cardinality(s) \in Nat /\ Cardinality(s) <= Cardinality(Classes)
  BY FS_Subset, FS_CardinalityType
<1>0. \A s \in SUBSET Classes : Summable(f, s)
  <2>1. \A c \in Classes : IsFiniteSet({r \in W : r.class = c})
    BY FS_Subset
  <2>2. \A c \in Classes : f[c] \in Int
    BY <2>1, FS_CardinalityType
  <2> QED BY <1>a, <2>2 DEF Summable
<1> DEFINE N == {n \in Nat : \A s \in Small(Classes, n) : SumFunctionOnSet(f, s) = Cardinality(Of(s))}
<1>1. 0 \in N
  <2>1. ASSUME NEW s \in Small(Classes, 0) PROVE SumFunctionOnSet(f, s) = Cardinality(Of(s))
    <3>1. s \in SUBSET Classes /\ s = {}
      BY <1>a, FS_EmptySet DEF Small
    <3>a. Summable(f, s)
      BY <1>0, <3>1
    <3>2. SumFunctionOnSet(f, s) = 0
      BY <3>a, <3>1, SumWithout
    <3>3. Of(s) = {}
      BY <3>1
    <3> QED BY <3>2, <3>3, FS_EmptySet
  <2> QED BY <2>1
<1>2. ASSUME NEW n \in Nat, n \in N PROVE n + 1 \in N
  <2>1. ASSUME NEW s \in Small(Classes, n + 1), s # {}
        PROVE  SumFunctionOnSet(f, s) = Cardinality(Of(s))
    <3>1. PICK c \in s : TRUE
      BY <2>1
    <3>2. s \in SUBSET Classes /\ Cardinality(s) <= n + 1 /\ IsFiniteSet(s) /\ c \in Classes
      BY <1>a, <2>1, <3>1 DEF Small
    <3> DEFINE t == s \ {c}
               M == {r \in W : r.class = c}
    <3>3. t \in Small(Classes, n)
      <4>1. Cardinality(t) = Cardinality(s) - 1 /\ Cardinality(s) \in Nat
        BY <3>1, <3>2, WithoutOne, FS_CardinalityType
      <4> QED BY <3>2, <4>1 DEF Small
    <3>4. SumFunctionOnSet(f, t) = Cardinality(Of(t))
      BY <1>2, <3>3
    <3>a. Summable(f, s)
      BY <1>0, <3>2
    <3>5. SumFunctionOnSet(f, s) = f[c] + SumFunctionOnSet(f, t)
      BY <3>a, <3>1, SumWithout
    <3>6. f[c] = Cardinality(M)
      BY <3>2
    <3>7. IsFiniteSet(M) /\ IsFiniteSet(Of(t)) /\ M \cap Of(t) = {} /\ Of(s) = M \cup Of(t)
      BY <3>1, FS_Subset
    <3>8. Cardinality(Of(s)) = Cardinality(M) + Cardinality(Of(t)) - Cardinality(M \cap Of(t))
      <4> HIDE DEF M, Of
      <4> QED BY <3>7, FS_Union
    <3>9. Cardinality(M \cap Of(t)) = 0 /\ Cardinality(M) \in Nat /\ Cardinality(Of(t)) \in Nat
      <4> HIDE DEF M, Of
      <4> QED BY <3>7, FS_EmptySet, FS_CardinalityType
    <3> QED BY <3>4, <3>5, <3>6, <3>8, <3>9
  <2>2. ASSUME NEW s \in Small(Classes, n + 1), s = {}
        PROVE  SumFunctionOnSet(f, s) = Cardinality(Of(s))
    <3>1. s \in Small(Classes, 0)
      BY <2>2, <1>a, FS_EmptySet DEF Small
    <3> QED BY <3>1, <1>1
  <2> QED BY <2>1, <2>2
<1>3. Cardinality(Classes) \in N
  <2> HIDE DEF N
  <2>1. Nat \subseteq N
    BY <1>1, <1>2, NatSetInduction
  <2> QED BY <2>1, FS_CardinalityType
<1>4. Classes \in Small(Classes, Cardinality(Classes))
  BY <1>a DEF Small
<1>5. Of(Classes) = W
  OBVIOUS
<1> QED BY <1>3, <1>4, <1>5

\* A label is put on a row: as many rows as before lie between any two instants.
LEMMA LabelKeepsCounts ==
    ASSUME NEW S, IsFiniteSet(S), OneRowEach(S), NEW r \in S, NEW s, s.at = r.at, s.class = r.class,
           NEW lo, NEW hi
    PROVE  /\ IsFiniteSet((S \ {r}) \cup {s}) /\ OneRowEach((S \ {r}) \cup {s})
           /\ Cardinality(Between((S \ {r}) \cup {s}, lo, hi)) = Cardinality(Between(S, lo, hi))
<1> DEFINE T == (S \ {r}) \cup {s}
<1>1. s \notin S \ {r} /\ OneRowEach(T)
  BY DEF OneRowEach
<1>2. IsFiniteSet(T)
  BY FS_RemoveElement, FS_AddElement
<1>3. CASE Between(T, lo, hi) = Between(S, lo, hi)
  BY <1>1, <1>2, <1>3 DEF Between
<1>4. CASE lo <= r.at /\ r.at < hi
  <2> DEFINE B == Between(S, lo, hi) \ {r}
  <2>1. r \in Between(S, lo, hi) /\ IsFiniteSet(Between(S, lo, hi))
    BY <1>4, FS_Subset DEF Between
  <2>2. IsFiniteSet(B) /\ Cardinality(B) = Cardinality(Between(S, lo, hi)) - 1
        /\ Cardinality(Between(S, lo, hi)) \in Nat
    BY <2>1, FS_RemoveElement, FS_CardinalityType
  <2>3. s \notin B /\ Between(T, lo, hi) = B \cup {s}
    BY <1>1, <1>4 DEF Between
  <2>4. Cardinality(B \cup {s}) = Cardinality(B) + 1
    <3> HIDE DEF B
    <3> QED BY <2>2, <2>3, FS_AddElement
  <2>5. Cardinality(Between(T, lo, hi)) = Cardinality(Between(S, lo, hi))
    <3> HIDE DEF B, T
    <3> QED BY <2>2, <2>3, <2>4
  <2> QED BY <1>1, <1>2, <2>5
<1>5. CASE ~ (lo <= r.at /\ r.at < hi)
  <2>1. Between(T, lo, hi) = Between(S, lo, hi)
    BY <1>5 DEF Between
  <2> HIDE DEF T
  <2> QED BY <2>1, <1>3 DEF T
<1> QED BY <1>4, <1>5

\* The rows since an instant: those of before this one, and those of this one.
LEMMA SettledAndFresh ==
    ASSUME NEW S, IsFiniteSet(S), S \subseteq Rows, NEW now \in 0 .. LastSecond, \A r \in S : r.at <= now,
           NEW since \in Int, since <= now
    PROVE  /\ Cardinality(Between(S, since, LastSecond + 1))
                 = Cardinality(Between(S, since, now)) + Cardinality(Between(S, now, now + 1))
           /\ IsFiniteSet(Between(S, since, LastSecond + 1))
           /\ Cardinality(Between(S, since, now)) \in Nat /\ Cardinality(Between(S, now, now + 1)) \in Nat
<1> DEFINE A == Between(S, since, now)
           B == Between(S, now, now + 1)
<1>1. IsFiniteSet(A) /\ IsFiniteSet(B) /\ IsFiniteSet(Between(S, since, LastSecond + 1))
  BY FS_Subset DEF Between
<1>2. \A r \in S : r.at \in Int
  BY ReportAssumption DEF Rows
<1>3. A \cap B = {} /\ Between(S, since, LastSecond + 1) = A \cup B
  BY <1>2, ReportAssumption DEF Between
<1> HIDE DEF A, B
<1>4. Cardinality(A \cup B) = Cardinality(A) + Cardinality(B) - Cardinality(A \cap B)
  BY <1>1, FS_Union
<1>5. Cardinality(A \cap B) = 0 /\ Cardinality(A) \in Nat /\ Cardinality(B) \in Nat
  BY <1>1, <1>3, FS_EmptySet, FS_CardinalityType
<1> QED BY <1>1, <1>3, <1>4, <1>5 DEF A, B

\* Where a quotient lies.
LEMMA QuotientBounds ==
    ASSUME NEW x \in Int, NEW m \in Nat \ {0}
    PROVE  /\ x \div m \in Int
           /\ (x < m => x \div m <= 0) /\ (x >= 0 => x \div m >= 0)
           /\ x \div m = 0 => 0 <= x /\ x < m
           /\ x \div m = 1 /\ x % m = 0 => x = m
OBVIOUS

\* A rounded quotient has the sign of the dividend, or is zero for one that is small.
LEMMA RoundKeepsSign ==
    ASSUME NEW n \in Int, NEW d \in Nat \ {0}
    PROVE  /\ Round(n, d) \in Int
           /\ n <= 0 => Round(n, d) <= 0
           /\ n >= 0 => Round(n, d) >= 0
           /\ Round(n, d) = 0 => 2 * n <= d /\ -2 * n <= d
<1> DEFINE x == 2 * n + d
           m == 2 * d
           up == x \div m
<1>1. x \in Int /\ m \in Nat \ {0}
  OBVIOUS
<1>2. /\ up \in Int /\ (x < m => up <= 0) /\ (x >= 0 => up >= 0)
      /\ up = 0 => 0 <= x /\ x < m
      /\ up = 1 /\ x % m = 0 => x = m
  <2> HIDE DEF x, m
  <2> QED BY <1>1, QuotientBounds
<1>3. Round(n, d) = IF x % m = 0 /\ up % 2 = 1 THEN up - 1 ELSE up
  BY DEF Round
<1>4. (n <= 0 => x < m) /\ (n >= 0 => x >= 0) /\ (0 <= x /\ x < m => 2 * n <= d /\ -2 * n <= d)
      /\ (x = m => 2 * n <= d /\ -2 * n <= d)
  OBVIOUS
<1> HIDE DEF x, m, up
<1>5. up = 0 => up % 2 # 1
  BY <1>2
<1>6. n <= 0 => Round(n, d) <= 0
  BY <1>2, <1>3, <1>4
<1>7. n >= 0 => Round(n, d) >= 0
  BY <1>2, <1>3, <1>4, <1>5
<1>8. Round(n, d) = 0 => 2 * n <= d /\ -2 * n <= d
  BY <1>2, <1>3, <1>4
<1>9. Round(n, d) \in Int
  BY <1>2, <1>3
<1> QED BY <1>6, <1>7, <1>8, <1>9

LEMMA ChangeKeepsSign ==
    ASSUME NEW total \in Nat, NEW prev \in Nat
    PROVE  LET change == ChangePercent(total, prev)
           IN  /\ change > 0 => total > prev
               /\ change < 0 => total < prev
               /\ change = 0 => 200 * (total - prev) <= prev /\ 200 * (prev - total) <= prev
<1> DEFINE n == (total - prev) * 100
<1>1. CASE prev > 0
  <2>1. n \in Int /\ prev \in Nat \ {0}
    BY <1>1
  <2>2. /\ Round(n, prev) \in Int
        /\ n <= 0 => Round(n, prev) <= 0
        /\ n >= 0 => Round(n, prev) >= 0
        /\ Round(n, prev) = 0 => 2 * n <= prev /\ -2 * n <= prev
    <3> HIDE DEF n
    <3> QED BY <2>1, RoundKeepsSign
  <2>3. ChangePercent(total, prev) = Round(n, prev)
    BY <1>1 DEF ChangePercent
  <2>4. (total <= prev => n <= 0) /\ (total >= prev => n >= 0)
        /\ (2 * n <= prev /\ -2 * n <= prev => 200 * (total - prev) <= prev /\ 200 * (prev - total) <= prev)
    OBVIOUS
  <2> HIDE DEF n
  <2> QED BY <2>2, <2>3, <2>4
<1>2. CASE ~ prev > 0
  BY <1>2 DEF ChangePercent
<1> QED BY <1>1, <1>2

\* _stoplight's early returns make it the worst of its three readings.
LEMMA StoplightIsTheWorst ==
    ASSUME NEW cpu \in -1 .. 2, NEW gpu \in -1 .. 2, NEW offline \in 0 .. OfflineRed
    PROVE  Stoplight(cpu, gpu, offline) = <<"green", "yellow", "red">>[Max({cpu, gpu, offline}) + 1]
<1> DEFINE worst == Max({cpu, gpu, offline})
<1>1. /\ \E x \in {cpu, gpu, offline} : \A y \in {cpu, gpu, offline} : x >= y
  BY DEF OfflineRed
<1>2. worst \in {cpu, gpu, offline} /\ \A y \in {cpu, gpu, offline} : worst >= y
  BY <1>1 DEF Max
<1> HIDE DEF worst
<1> QED BY <1>2 DEF Stoplight, OfflineRed, worst

ReportTyped ==
    /\ second \in 0 .. LastSecond /\ IsFiniteSet(recorded) /\ recorded \subseteq Rows /\ gone \subseteq recorded
    /\ outages \subseteq 0 .. LastSecond
    /\ query \in {"none", "total", "class", "prev", "offline", "feedback", "done"}
    /\ reading \in Readings
AnswersTyped ==
    answers \in [since : Int, total : Nat, byClass : [Classes -> Nat], prev : Nat, offline : Nat,
                 light : {"none", "green", "yellow", "red"}, labelled : Nat, false : Nat]

\* A class has one row at an instant, none lies ahead, and what is deleted is past the retention.
RowsAreOfTheirTime ==
    /\ OneRowEach(recorded)
    /\ \A r \in recorded : r.at <= second
    /\ \A r \in gone : r.at < second - Retention

SinceThePeriod == query # "none" => answers.since = second - PeriodLength

\* Where the report's numbers lie, from the query on that returned them.
SettledRows == Cardinality(Between(recorded, answers.since, second))
FreshRows == Cardinality(Between(recorded, second, second + 1))
NumbersFit ==
    /\ answers.false <= answers.labelled
    /\ Retention >= PeriodLength =>
          /\ query \in {"class", "prev", "offline", "feedback", "done"} =>
                SettledRows <= answers.total /\ answers.total <= SettledRows + FreshRows
          /\ query \in {"prev", "offline", "feedback", "done"} =>
                /\ answers.total <= SumFunctionOnSet(answers.byClass, Classes)
                /\ SumFunctionOnSet(answers.byClass, Classes) <= SettledRows + FreshRows
          /\ query = "done" => answers.labelled <= SettledRows + FreshRows

PreviousIsCounted ==
    query \in {"offline", "feedback", "done"} /\ Retention >= 2 * PeriodLength =>
        answers.prev = Cardinality(Between(recorded, answers.since - PeriodLength, answers.since))

LightIsShown ==
    answers.light # "none" => answers.light = Stoplight(reading[1], reading[2], answers.offline)

ReportInv ==
    /\ ReportTyped /\ AnswersTyped /\ RowsAreOfTheirTime /\ SinceThePeriod
    /\ NumbersFit /\ PreviousIsCounted /\ LightIsShown

LEMMA ReportStart == ReportInit => ReportInv
<1> SUFFICES ASSUME ReportInit PROVE ReportInv
  OBVIOUS
<1>1. recorded = {} /\ gone = {} /\ outages = {} /\ second = 0 /\ query = "none" /\ answers = NoAnswers
      /\ reading \in Readings
  BY DEF ReportInit
<1>2. ReportTyped
  BY <1>1, FS_EmptySet, ReportAssumption DEF ReportTyped
<1>3. AnswersTyped
  BY <1>1 DEF AnswersTyped, NoAnswers
<1>4. RowsAreOfTheirTime /\ SinceThePeriod
  BY <1>1 DEF RowsAreOfTheirTime, SinceThePeriod, OneRowEach
<1>5. NumbersFit /\ PreviousIsCounted /\ LightIsShown
  BY <1>1 DEF NumbersFit, PreviousIsCounted, LightIsShown, NoAnswers
<1> QED BY <1>2, <1>3, <1>4, <1>5 DEF ReportInv

\* The table holds every row of a window that begins within the retention.
LEMMA NoneIsGone ==
    ASSUME ReportInv, NEW lo \in Int, lo >= second - Retention, NEW hi
    PROVE  Between(table, lo, hi) = Between(recorded, lo, hi)
<1>1. \A r \in recorded : r.at \in Int
  BY ReportAssumption DEF ReportInv, ReportTyped, Rows
<1> QED BY <1>1, ReportAssumption DEF ReportInv, ReportTyped, RowsAreOfTheirTime, table, Between

\* A query changes nothing but its answer.
LEMMA AskKeepsRows ==
    ASSUME ReportInv, NEW name, NEW next, NEW found, Ask(name, next, found),
           next \in {"none", "total", "class", "prev", "offline", "feedback", "done"}
    PROVE  /\ query = name /\ query' = next /\ answers' = found
           /\ ReportTyped' /\ RowsAreOfTheirTime'
           /\ second' = second /\ recorded' = recorded /\ reading' = reading
<1>1. /\ query = name /\ query' = next /\ answers' = found
      /\ UNCHANGED <<second, recorded, gone, outages, reading>>
  BY DEF Ask
<1> QED BY <1>1 DEF ReportInv, ReportTyped, RowsAreOfTheirTime

LEMMA ReportStep == ASSUME ReportInv, [ReportNext]_reportVars PROVE ReportInv'
<1> USE DEF ReportInv
<1>0. /\ second \in Nat /\ LastSecond \in Nat /\ PeriodLength \in Nat \ {0} /\ Retention \in Nat
      /\ second <= LastSecond /\ IsFiniteSet(Classes)
  BY ReportAssumption DEF ReportTyped
<1>w. ASSUME query # "none"
      PROVE  /\ Cardinality(Between(recorded, answers.since, LastSecond + 1)) = SettledRows + FreshRows
             /\ IsFiniteSet(Between(recorded, answers.since, LastSecond + 1))
             /\ SettledRows \in Nat /\ FreshRows \in Nat
             /\ Retention >= PeriodLength =>
                   Between(table, answers.since, LastSecond + 1) = Between(recorded, answers.since, LastSecond + 1)
  <2>1. answers.since \in Int /\ answers.since <= second
        /\ (Retention >= PeriodLength => answers.since >= second - Retention)
    BY <1>0, <1>w DEF SinceThePeriod
  <2>2. Retention >= PeriodLength =>
            Between(table, answers.since, LastSecond + 1) = Between(recorded, answers.since, LastSecond + 1)
    BY <2>1, NoneIsGone
  <2>3. IsFiniteSet(recorded) /\ recorded \subseteq Rows /\ \A r \in recorded : r.at <= second
    BY DEF ReportTyped, RowsAreOfTheirTime
  <2> QED BY <2>1, <2>2, <2>3, SettledAndFresh DEF SettledRows, FreshRows, ReportTyped
<1>s. SumFunctionOnSet(answers.byClass, Classes) \in Int
  <2>1. Summable(answers.byClass, Classes)
    BY <1>0 DEF Summable, AnswersTyped
  <2> QED BY <2>1, SumWithout
<1>1. CASE StartReport
  <2> DEFINE found == [NoAnswers EXCEPT !.since = second - PeriodLength]
  <2>1. /\ query = "none" /\ query' = "total" /\ answers' = found /\ ReportTyped' /\ RowsAreOfTheirTime'
        /\ second' = second
    BY <1>1, AskKeepsRows DEF StartReport
  <2>2. answers' = [since |-> second - PeriodLength, total |-> 0, byClass |-> [c \in Classes |-> 0], prev |-> 0,
                    offline |-> 0, light |-> "none", labelled |-> 0, false |-> 0]
    BY <2>1 DEF NoAnswers
  <2>3. AnswersTyped' /\ SinceThePeriod'
    <3>1. second - PeriodLength \in Int /\ [c \in Classes |-> 0] \in [Classes -> Nat]
      BY <1>0
    <3>2. AnswersTyped'
      <4> HIDE DEF found
      <4> QED BY <2>2, <3>1 DEF AnswersTyped
    <3>3. SinceThePeriod'
      <4> HIDE DEF found
      <4> QED BY <2>1, <2>2 DEF SinceThePeriod
    <3> QED BY <3>2, <3>3
  <2>4. NumbersFit' /\ PreviousIsCounted' /\ LightIsShown'
    BY <2>1, <2>2 DEF NumbersFit, PreviousIsCounted, LightIsShown
  <2> QED BY <2>1, <2>3, <2>4
<1>2. CASE AskTotal
  <2> DEFINE total == Count(table, answers.since, LastSecond + 1)
  <2>1. /\ query = "total" /\ query' = "class" /\ answers' = [answers EXCEPT !.total = total]
        /\ ReportTyped' /\ RowsAreOfTheirTime' /\ second' = second /\ recorded' = recorded /\ reading' = reading
    BY <1>2, AskKeepsRows DEF AskTotal
  <2>2. IsFiniteSet(Between(table, answers.since, LastSecond + 1))
        /\ total = Cardinality(Between(table, answers.since, LastSecond + 1)) /\ total \in Nat
    <3>1. IsFiniteSet(Between(table, answers.since, LastSecond + 1))
      BY FS_Subset DEF Between, table, ReportTyped
    <3> QED BY <3>1, FS_CardinalityType DEF Count, Between
  <2>3. /\ answers'.total = total /\ answers'.since = answers.since /\ answers'.false = answers.false
        /\ answers'.labelled = answers.labelled /\ answers'.light = answers.light
        /\ answers'.offline = answers.offline /\ AnswersTyped'
    <3> HIDE DEF total
    <3> QED BY <2>1, <2>2 DEF AnswersTyped
  <2>4. SettledRows' = SettledRows /\ FreshRows' = FreshRows
    BY <2>1, <2>3 DEF SettledRows, FreshRows
  <2>5. Retention >= PeriodLength => SettledRows <= total /\ total <= SettledRows + FreshRows
    <3> HIDE DEF total
    <3> QED BY <2>1, <2>2, <1>w
  <2>6. NumbersFit'
    <3> HIDE DEF total
    <3> QED BY <2>1, <2>3, <2>4, <2>5 DEF NumbersFit
  <2>7. SinceThePeriod' /\ PreviousIsCounted' /\ LightIsShown'
    BY <2>1, <2>3 DEF SinceThePeriod, PreviousIsCounted, LightIsShown
  <2> QED BY <2>1, <2>3, <2>6, <2>7
<1>3. CASE AskByClass
  <2> DEFINE W == Between(table, answers.since, LastSecond + 1)
             f == [c \in Classes |-> Cardinality({r \in W : r.class = c})]
  <2>1. /\ query = "class" /\ query' = "prev"
        /\ answers' = [answers EXCEPT !.byClass = CountEventsByClass(table, answers.since)]
        /\ ReportTyped' /\ RowsAreOfTheirTime' /\ second' = second /\ recorded' = recorded /\ reading' = reading
    BY <1>3, AskKeepsRows DEF AskByClass
  <2>2. CountEventsByClass(table, answers.since) = f
    <3>1. ASSUME NEW c \in Classes
          PROVE  Count({r \in table : r.class = c}, answers.since, LastSecond + 1) = Cardinality({r \in W : r.class = c})
      <4>1. {r \in {s \in table : s.class = c} : answers.since <= r.at /\ r.at < LastSecond + 1}
               = {r \in W : r.class = c}
        BY DEF Between
      <4> QED BY <4>1 DEF Count
    <3> QED BY <3>1 DEF CountEventsByClass
  <2>3. IsFiniteSet(W) /\ \A r \in W : r.class \in Classes
    <3>1. IsFiniteSet(W)
      BY FS_Subset DEF Between, table, ReportTyped
    <3> QED BY <3>1 DEF Between, table, ReportTyped, Rows
  <2>4. f \in [Classes -> Nat] /\ SumFunctionOnSet(f, Classes) = Cardinality(W)
    <3>1. \A c \in Classes : IsFiniteSet({r \in W : r.class = c})
      <4> HIDE DEF W
      <4> QED BY <2>3, FS_Subset
    <3>2. f \in [Classes -> Nat]
      <4> HIDE DEF W
      <4> QED BY <3>1, FS_CardinalityType
    <3>3. SumFunctionOnSet(f, Classes) = Cardinality(W)
      <4>1. f = [c \in Classes |-> Cardinality({r \in W : r.class = c})]
        OBVIOUS
      <4> HIDE DEF W, f
      <4> QED BY <4>1, <2>3, <1>0, ClassesPartition
    <3> QED BY <3>2, <3>3
  <2>5. /\ answers'.byClass = f /\ answers'.since = answers.since /\ answers'.false = answers.false
        /\ answers'.labelled = answers.labelled /\ answers'.light = answers.light
        /\ answers'.total = answers.total /\ answers'.offline = answers.offline /\ AnswersTyped'
    <3> HIDE DEF f
    <3> QED BY <2>1, <2>2, <2>4 DEF AnswersTyped
  <2>6. SettledRows' = SettledRows /\ FreshRows' = FreshRows
    BY <2>1, <2>5 DEF SettledRows, FreshRows
  <2>7. Retention >= PeriodLength => SumFunctionOnSet(f, Classes) = SettledRows + FreshRows
    <3> HIDE DEF f
    <3> QED BY <2>1, <2>4, <1>w
  <2>8. NumbersFit'
    <3>1. Retention >= PeriodLength =>
              SumFunctionOnSet(answers'.byClass, Classes) = SettledRows + FreshRows
      BY <2>5, <2>7
    <3>2. query # "none" /\ SettledRows \in Nat /\ FreshRows \in Nat
      BY <2>1, <1>w
    <3> HIDE DEF f
    <3> QED BY <2>1, <2>5, <2>6, <3>1, <3>2 DEF NumbersFit
  <2>9. SinceThePeriod' /\ PreviousIsCounted' /\ LightIsShown'
    BY <2>1, <2>5 DEF SinceThePeriod, PreviousIsCounted, LightIsShown
  <2> QED BY <2>1, <2>5, <2>8, <2>9
<1>4. CASE AskPrevious
  <2> DEFINE prev == Count(table, answers.since - PeriodLength, answers.since)
  <2>1. /\ query = "prev" /\ query' = "offline" /\ answers' = [answers EXCEPT !.prev = prev]
        /\ ReportTyped' /\ RowsAreOfTheirTime' /\ second' = second /\ recorded' = recorded /\ reading' = reading
    BY <1>4, AskKeepsRows DEF AskPrevious
  <2>2. prev = Cardinality(Between(table, answers.since - PeriodLength, answers.since)) /\ prev \in Nat
    <3>1. IsFiniteSet(Between(table, answers.since - PeriodLength, answers.since))
      BY FS_Subset DEF Between, table, ReportTyped
    <3> QED BY <3>1, FS_CardinalityType DEF Count, Between
  <2>3. Retention >= 2 * PeriodLength =>
            prev = Cardinality(Between(recorded, answers.since - PeriodLength, answers.since))
    <3> HIDE DEF prev
    <3>1. answers.since - PeriodLength \in Int
          /\ (Retention >= 2 * PeriodLength => answers.since - PeriodLength >= second - Retention)
      BY <1>0, <2>1 DEF SinceThePeriod
    <3> QED BY <3>1, <2>2, NoneIsGone
  <2>4. /\ answers'.prev = prev /\ answers'.since = answers.since /\ answers'.false = answers.false
        /\ answers'.labelled = answers.labelled /\ answers'.light = answers.light
        /\ answers'.total = answers.total /\ answers'.byClass = answers.byClass
        /\ answers'.offline = answers.offline /\ AnswersTyped'
    <3> HIDE DEF prev
    <3> QED BY <2>1, <2>2 DEF AnswersTyped
  <2>5. SettledRows' = SettledRows /\ FreshRows' = FreshRows
    BY <2>1, <2>4 DEF SettledRows, FreshRows
  <2>6. NumbersFit'
    <3> HIDE DEF prev
    <3> QED BY <2>1, <2>4, <2>5 DEF NumbersFit
  <2>7. PreviousIsCounted'
    <3> HIDE DEF prev
    <3> QED BY <2>1, <2>3, <2>4 DEF PreviousIsCounted
  <2>8. SinceThePeriod' /\ LightIsShown'
    BY <2>1, <2>4 DEF SinceThePeriod, LightIsShown
  <2> QED BY <2>1, <2>4, <2>6, <2>7, <2>8
<1>5. CASE AskHealth
  <2> DEFINE offline == CameraOfflineCount(table, answers.since)
             light == Stoplight(reading[1], reading[2], offline)
  <2>1. /\ query = "offline" /\ query' = "feedback"
        /\ answers' = [answers EXCEPT !.offline = offline, !.light = light]
        /\ ReportTyped' /\ RowsAreOfTheirTime' /\ second' = second /\ recorded' = recorded /\ reading' = reading
    BY <1>5, AskKeepsRows DEF AskHealth
  <2>2. offline \in Nat
    <3>1. IsFiniteSet(Between({r \in table : r.class = OutageClass}, answers.since, LastSecond + 1))
      BY FS_Subset DEF Between, table, ReportTyped
    <3> QED BY <3>1, FS_CardinalityType DEF CameraOfflineCount, Count, Between
  <2>3. light \in {"none", "green", "yellow", "red"}
    BY DEF Stoplight
  <2>4. /\ answers'.offline = offline /\ answers'.light = light /\ answers'.since = answers.since
        /\ answers'.false = answers.false /\ answers'.labelled = answers.labelled
        /\ answers'.total = answers.total /\ answers'.byClass = answers.byClass /\ answers'.prev = answers.prev
        /\ AnswersTyped'
    <3> HIDE DEF offline, light
    <3> QED BY <2>1, <2>2, <2>3 DEF AnswersTyped
  <2>5. SettledRows' = SettledRows /\ FreshRows' = FreshRows
    BY <2>1, <2>4 DEF SettledRows, FreshRows
  <2>6. NumbersFit' /\ PreviousIsCounted' /\ SinceThePeriod'
    BY <2>1, <2>4, <2>5 DEF NumbersFit, PreviousIsCounted, SinceThePeriod
  <2>7. LightIsShown'
    BY <2>1, <2>4 DEF LightIsShown
  <2> QED BY <2>1, <2>4, <2>6, <2>7
<1>6. CASE AskFeedback
  <2> DEFINE W == Between(table, answers.since, LastSecond + 1)
             good == Cardinality({r \in W : r.label = "correct"})
             bad == Cardinality({r \in W : r.label = "false_positive"})
             summary == FeedbackSummary(table, answers.since)
  <2>1. /\ query = "feedback" /\ query' = "done"
        /\ answers' = [answers EXCEPT !.false = summary["false_positive"],
                                     !.labelled = summary["correct"] + summary["false_positive"]]
        /\ ReportTyped' /\ RowsAreOfTheirTime' /\ second' = second /\ recorded' = recorded /\ reading' = reading
    BY <1>6, AskKeepsRows DEF AskFeedback
  <2>2. summary["correct"] = good /\ summary["false_positive"] = bad
    <3>1. ASSUME NEW l \in Labels PROVE summary[l] = Cardinality({r \in W : r.label = l})
      <4>1. {r \in {s \in table : s.label = l} : answers.since <= r.at /\ r.at < LastSecond + 1}
               = {r \in W : r.label = l}
        BY DEF Between
      <4> QED BY <4>1 DEF Count, FeedbackSummary
    <3>2. "correct" \in Labels /\ "false_positive" \in Labels
      BY DEF Labels
    <3> HIDE DEF summary, W
    <3> QED BY <3>1, <3>2
  <2>3. IsFiniteSet(W)
    BY FS_Subset DEF Between, table, ReportTyped
  <2>4. good \in Nat /\ bad \in Nat /\ good + bad <= Cardinality(W)
    <3> DEFINE G == {r \in W : r.label = "correct"}
               B == {r \in W : r.label = "false_positive"}
    <3>1. G \subseteq W /\ B \subseteq W /\ G \cap B = {} /\ G \cup B \subseteq W
      OBVIOUS
    <3>2. good = Cardinality(G) /\ bad = Cardinality(B)
      OBVIOUS
    <3> HIDE DEF W, G, B, good, bad
    <3>3. IsFiniteSet(G) /\ IsFiniteSet(B) /\ Cardinality(G \cup B) <= Cardinality(W)
      BY <2>3, <3>1, FS_Subset
    <3>4. Cardinality(G \cup B) = Cardinality(G) + Cardinality(B) - Cardinality(G \cap B)
      BY <3>3, FS_Union
    <3>5. Cardinality(G \cap B) = 0 /\ Cardinality(G) \in Nat /\ Cardinality(B) \in Nat
      BY <3>1, <3>3, FS_EmptySet, FS_CardinalityType
    <3> QED BY <3>2, <3>3, <3>4, <3>5
  <2>5. /\ answers'.false = bad /\ answers'.labelled = good + bad
        /\ answers'.offline = answers.offline /\ answers'.light = answers.light /\ answers'.since = answers.since
        /\ answers'.total = answers.total /\ answers'.byClass = answers.byClass /\ answers'.prev = answers.prev
        /\ AnswersTyped'
    <3>1. answers' = [[answers EXCEPT !.false = bad] EXCEPT !.labelled = good + bad]
      BY <2>1, <2>2
    <3> HIDE DEF good, bad, summary
    <3>2. good + bad \in Nat
      BY <2>4
    <3> QED BY <2>4, <3>1, <3>2 DEF AnswersTyped
  <2>6. SettledRows' = SettledRows /\ FreshRows' = FreshRows
    BY <2>1, <2>5 DEF SettledRows, FreshRows
  <2>7. Retention >= PeriodLength => good + bad <= SettledRows + FreshRows
    <3>1. Retention >= PeriodLength => Cardinality(W) = SettledRows + FreshRows
      BY <2>1, <1>w
    <3> HIDE DEF W, good, bad
    <3> QED BY <2>4, <3>1
  <2>8. NumbersFit'
    <3> HIDE DEF good, bad
    <3> QED BY <2>1, <2>4, <2>5, <2>6, <2>7 DEF NumbersFit
  <2>9. PreviousIsCounted' /\ SinceThePeriod' /\ LightIsShown'
    BY <2>1, <2>5 DEF PreviousIsCounted, SinceThePeriod, LightIsShown
  <2> QED BY <2>1, <2>5, <2>8, <2>9
<1>7. ASSUME NEW c \in Classes, NewEvent(c) PROVE ReportInv'
  <2> DEFINE n == [at |-> second, class |-> c, label |-> "none"]
  <2>1. /\ recorded' = recorded \cup {n} /\ ~ \E r \in recorded : r.at = second /\ r.class = c
        /\ UNCHANGED <<second, gone, outages, query, answers, reading>>
    BY <1>7 DEF NewEvent
  <2>2. ReportTyped'
    <3>1. n \in Rows
      BY DEF Rows, Labels, ReportTyped
    <3>2. IsFiniteSet(recorded')
      <4> HIDE DEF n
      <4> QED BY <2>1, FS_AddElement DEF ReportTyped
    <3> HIDE DEF n
    <3> QED BY <2>1, <3>1, <3>2 DEF ReportTyped
  <2>3. RowsAreOfTheirTime'
    BY <2>1, <1>0 DEF RowsAreOfTheirTime, OneRowEach
  <2>4. AnswersTyped' /\ SinceThePeriod' /\ LightIsShown'
    BY <2>1 DEF AnswersTyped, SinceThePeriod, LightIsShown
  <2>5. Between(recorded', answers.since, second) = Between(recorded, answers.since, second)
    BY <2>1, <1>0 DEF Between
  <2>6. SettledRows' = SettledRows
    BY <2>1, <2>5 DEF SettledRows
  <2>7. query # "none" => FreshRows <= FreshRows' /\ FreshRows \in Nat /\ FreshRows' \in Nat /\ SettledRows \in Nat
    <3>1. IsFiniteSet(Between(recorded', second, second + 1))
      BY <2>2, FS_Subset DEF Between, ReportTyped
    <3>2. Between(recorded, second, second + 1) \subseteq Between(recorded', second, second + 1)
      BY <2>1 DEF Between
    <3>3. Cardinality(Between(recorded, second, second + 1)) <= Cardinality(Between(recorded', second, second + 1))
          /\ IsFiniteSet(Between(recorded, second, second + 1))
      BY <3>1, <3>2, FS_Subset
    <3> QED BY <2>1, <3>1, <3>3, <1>w, FS_CardinalityType DEF FreshRows
  <2>8. NumbersFit'
    <3>1. answers.total \in Nat /\ answers.labelled \in Nat
      BY DEF AnswersTyped
    <3> HIDE DEF n
    <3> QED BY <2>1, <2>6, <2>7, <3>1, <1>s DEF NumbersFit
  <2>9. PreviousIsCounted'
    <3>1. query # "none" =>
             Between(recorded', answers.since - PeriodLength, answers.since)
                = Between(recorded, answers.since - PeriodLength, answers.since)
      BY <2>1, <1>0 DEF Between, SinceThePeriod
    <3> QED BY <2>1, <3>1 DEF PreviousIsCounted
  <2> QED BY <2>2, <2>3, <2>4, <2>8, <2>9
<1>8. ASSUME NEW r \in table, NEW l \in Labels, Labelled(r, l) PROVE ReportInv'
  <2> DEFINE s == [r EXCEPT !.label = l]
  <2>1. /\ recorded' = (recorded \ {r}) \cup {s} /\ r \in recorded /\ r \notin gone
        /\ UNCHANGED <<second, gone, outages, query, answers, reading>>
    BY <1>8 DEF Labelled, table
  <2>2. s \in Rows /\ s.at = r.at /\ s.class = r.class
    BY <2>1 DEF ReportTyped, Rows
  <2> HIDE DEF s
  <2>3. /\ IsFiniteSet(recorded') /\ OneRowEach(recorded')
        /\ \A lo, hi : Cardinality(Between(recorded', lo, hi)) = Cardinality(Between(recorded, lo, hi))
    <3>1. IsFiniteSet(recorded) /\ OneRowEach(recorded)
      BY DEF ReportTyped, RowsAreOfTheirTime
    <3>2. ASSUME NEW lo, NEW hi
          PROVE  /\ IsFiniteSet((recorded \ {r}) \cup {s}) /\ OneRowEach((recorded \ {r}) \cup {s})
                 /\ Cardinality(Between((recorded \ {r}) \cup {s}, lo, hi)) = Cardinality(Between(recorded, lo, hi))
      BY <2>1, <2>2, <3>1, LabelKeepsCounts
    <3> QED BY <2>1, <3>2
  <2>4. ReportTyped'
    BY <2>1, <2>2, <2>3 DEF ReportTyped
  <2>5. RowsAreOfTheirTime'
    BY <2>1, <2>2, <2>3 DEF RowsAreOfTheirTime
  <2>6. AnswersTyped' /\ SinceThePeriod' /\ LightIsShown'
    BY <2>1 DEF AnswersTyped, SinceThePeriod, LightIsShown
  <2>7. SettledRows' = SettledRows /\ FreshRows' = FreshRows
    BY <2>1, <2>3 DEF SettledRows, FreshRows
  <2>8. NumbersFit'
    BY <2>1, <2>7 DEF NumbersFit
  <2>9. PreviousIsCounted'
    BY <2>1, <2>3 DEF PreviousIsCounted
  <2> QED BY <2>4, <2>5, <2>6, <2>8, <2>9
<1>9. CASE PruneOld
  <2>1. /\ gone' \subseteq recorded /\ \A r \in gone' : r.at < second - Retention
        /\ UNCHANGED <<second, recorded, outages, query, answers, reading>>
    BY <1>9 DEF PruneOld, ReportTyped, RowsAreOfTheirTime, table
  <2> QED BY <2>1 DEF ReportTyped, RowsAreOfTheirTime, AnswersTyped, SinceThePeriod, LightIsShown,
                      NumbersFit, SettledRows, FreshRows, PreviousIsCounted
<1>10. CASE CameraGoesOffline
  <2>1. /\ outages' \subseteq 0 .. LastSecond
        /\ UNCHANGED <<second, recorded, gone, query, answers, reading>>
    BY <1>10 DEF CameraGoesOffline, ReportTyped
  <2> QED BY <2>1 DEF ReportTyped, RowsAreOfTheirTime, AnswersTyped, SinceThePeriod, LightIsShown,
                      NumbersFit, SettledRows, FreshRows, PreviousIsCounted
<1>11. CASE SecondPasses
  <2>1. /\ query = "none" /\ second' = second + 1 /\ second' \in 0 .. LastSecond
        /\ UNCHANGED <<recorded, gone, outages, query, answers, reading>>
    BY <1>0, <1>11 DEF SecondPasses
  <2>2. ReportTyped'
    BY <2>1 DEF ReportTyped
  <2>3. RowsAreOfTheirTime'
    <3>1. \A r \in recorded : r.at \in Int
      BY ReportAssumption DEF ReportTyped, Rows
    <3> QED BY <1>0, <2>1, <3>1 DEF RowsAreOfTheirTime, ReportTyped
  <2>4. AnswersTyped' /\ SinceThePeriod' /\ LightIsShown' /\ NumbersFit' /\ PreviousIsCounted'
    BY <2>1 DEF AnswersTyped, SinceThePeriod, LightIsShown, NumbersFit, PreviousIsCounted
  <2> QED BY <2>2, <2>3, <2>4
<1>12. CASE UNCHANGED reportVars
  BY <1>12 DEF reportVars, ReportTyped, RowsAreOfTheirTime, AnswersTyped, SinceThePeriod, LightIsShown,
               NumbersFit, SettledRows, FreshRows, PreviousIsCounted
<1> QED
  BY <1>1, <1>2, <1>3, <1>4, <1>5, <1>6, <1>7, <1>8, <1>9, <1>10, <1>11, <1>12 DEF ReportNext

LEMMA ReportInvSuffices == ReportInv => ReportHolds
<1> SUFFICES ASSUME ReportInv PROVE ReportHolds
  OBVIOUS
<1> USE DEF ReportInv
<1>1. ReportTypeOK
  BY DEF ReportTypeOK, ReportTyped, AnswersTyped
<1>2. ReportAddsUp
  <2> SUFFICES ASSUME query = "done", Retention >= PeriodLength
               PROVE  LET sum == SumFunction(answers.byClass)
                          fresh == Cardinality({r \in recorded : r.at = second})
                      IN /\ answers.total <= sum /\ sum <= answers.total + fresh
                         /\ answers.false <= answers.labelled /\ answers.labelled <= sum + fresh
    BY DEF ReportAddsUp
  <2> DEFINE sum == SumFunctionOnSet(answers.byClass, Classes)
  <2>1. SumFunction(answers.byClass) = sum
    BY DEF SumFunction, AnswersTyped
  <2>2. {r \in recorded : r.at = second} = Between(recorded, second, second + 1)
    BY DEF Between, ReportTyped, Rows
  <2>3. IsFiniteSet(Between(recorded, answers.since, second)) /\ IsFiniteSet(Between(recorded, second, second + 1))
    BY FS_Subset DEF Between, ReportTyped
  <2>4. SettledRows \in Nat /\ FreshRows \in Nat
    BY <2>3, FS_CardinalityType DEF SettledRows, FreshRows
  <2>5. sum \in Int
    <3>1. Summable(answers.byClass, Classes)
      BY ReportAssumption DEF Summable, AnswersTyped
    <3> QED BY <3>1, SumWithout
  <2>6. answers.total \in Nat /\ answers.labelled \in Nat /\ answers.false \in Nat
    BY DEF AnswersTyped
  <2>7. /\ answers.false <= answers.labelled
        /\ SettledRows <= answers.total /\ answers.total <= sum /\ sum <= SettledRows + FreshRows
        /\ answers.labelled <= SettledRows + FreshRows
    BY DEF NumbersFit
  <2>8. Cardinality({r \in recorded : r.at = second}) = FreshRows
    BY <2>2 DEF FreshRows
  <2> HIDE DEF sum
  <2>9. /\ answers.total <= sum /\ sum <= answers.total + FreshRows
        /\ answers.false <= answers.labelled /\ answers.labelled <= sum + FreshRows
    BY <2>4, <2>5, <2>6, <2>7
  <2> QED BY <2>1, <2>8, <2>9
<1>3. ComparisonIsFair
  <2> SUFFICES ASSUME query = "done"
               PROVE  LET change == ChangePercent(answers.total, answers.prev)
                      IN /\ Retention >= 2 * PeriodLength => answers.prev = Cardinality(PreviousPeriod)
                         /\ change > 0 => answers.total > answers.prev
                         /\ change < 0 => answers.total < answers.prev
                         /\ change = 0 => /\ 200 * (answers.total - answers.prev) <= answers.prev
                                          /\ 200 * (answers.prev - answers.total) <= answers.prev
    BY DEF ComparisonIsFair
  <2>1. answers.total \in Nat /\ answers.prev \in Nat
    BY DEF AnswersTyped
  <2>2. Retention >= 2 * PeriodLength => answers.prev = Cardinality(PreviousPeriod)
    BY DEF PreviousIsCounted, PreviousPeriod, Between
  <2> QED BY <2>1, <2>2, ChangeKeepsSign
<1>4. LightIsTheWorst
  <2> SUFFICES ASSUME answers.light # "none"
               PROVE  LET offline == IF answers.offline >= OfflineRed THEN 2 ELSE answers.offline
                          worst == Max({reading[1], reading[2], offline})
                      IN answers.light = <<"green", "yellow", "red">>[worst + 1]
    BY DEF LightIsTheWorst
  <2> DEFINE offline == IF answers.offline >= OfflineRed THEN 2 ELSE answers.offline
  <2>1. reading[1] \in -1 .. 2 /\ reading[2] \in -1 .. 2
    BY ReportAssumption DEF ReportTyped
  <2>2. offline \in 0 .. OfflineRed /\ Stoplight(reading[1], reading[2], answers.offline) = Stoplight(reading[1], reading[2], offline)
    BY DEF AnswersTyped, OfflineRed, Stoplight
  <2>3. answers.light = Stoplight(reading[1], reading[2], offline)
    BY <2>2 DEF LightIsShown
  <2> HIDE DEF offline
  <2>4. answers.light = <<"green", "yellow", "red">>[Max({reading[1], reading[2], offline}) + 1]
    BY <2>1, <2>2, <2>3, StoplightIsTheWorst
  <2> QED BY <2>4 DEF offline
<1> QED BY <1>1, <1>2, <1>3, <1>4 DEF ReportHolds

\* Whatever is recorded and pruned while a report is made, its numbers fit one another and the rows,
\* where rows are kept as long as it looks back.  For any classes, period and retention.
THEOREM ReportIsTrue == ReportSpec => []ReportHolds
<1>1. ReportInv /\ [ReportNext]_reportVars => ReportInv'
  BY ReportStep
<1> QED BY <1>1, ReportStart, ReportInvSuffices, PTL DEF ReportSpec

-----------------------------------------------------------------------------
(* The classes of a model file.                                            *)

\* A hit is the classes of an entry under the key.
LEMMA CachedEffect ==
    ASSUME NEW held \in Seq(Entry), NEW stamp, NEW hit \in Cached(held, stamp)
    PROVE  \/ hit = 0
           \/ \E i \in DOMAIN held : held[i].stamp = stamp /\ held[i].classes = hit
<1> DEFINE found == {e.classes : e \in {f \in ToSet(held) : f.stamp = stamp}}
<1>1. hit \in (IF found = {} THEN {0} ELSE found)
  BY DEF Cached
<1>2. CASE found = {}
  BY <1>1, <1>2
<1>3. CASE found # {}
  <2>1. PICK e \in ToSet(held) : e.stamp = stamp /\ e.classes = hit
    BY <1>1, <1>3
  <2> QED BY <2>1 DEF ToSet
<1> QED BY <1>2, <1>3

\* A cache that took an entry holds that one and others it had, no more than it may.
LEMMA PutEffect ==
    ASSUME NEW held \in Seq(Entry), Len(held) <= CacheMax, NEW stamp \in Contents, NEW classes \in Contents
    PROVE  LET after == Put(held, stamp, classes)
           IN  /\ after \in Seq(Entry) /\ Len(after) <= CacheMax
               /\ \A i \in DOMAIN after :
                     \/ after[i] = [stamp |-> stamp, classes |-> classes]
                     \/ \E j \in DOMAIN held : after[i] = held[j]
<1> DEFINE room == IF Len(held) >= CacheMax THEN Tail(held) ELSE held
           e == [stamp |-> stamp, classes |-> classes]
           after == Put(held, stamp, classes)
<1>0. e \in Entry /\ CacheMax \in Nat \ {0} /\ Len(held) \in Nat /\ DOMAIN held = 1 .. Len(held)
  BY ClassesAssumption, LenProperties DEF Entry
<1>1. /\ room \in Seq(Entry) /\ Len(room) \in Nat /\ Len(room) < CacheMax /\ DOMAIN room = 1 .. Len(room)
      /\ \A i \in DOMAIN room : \E j \in DOMAIN held : room[i] = held[j]
  <2>1. CASE Len(held) >= CacheMax
    <3>1. held # <<>>
      BY <1>0, <2>1
    <3>2. /\ Tail(held) \in Seq(Entry) /\ DOMAIN Tail(held) = 1 .. Len(held) - 1
          /\ \A i \in 1 .. Len(held) - 1 : Tail(held)[i] = held[i + 1]
      BY <3>1, TailEffect
    <3>3. Len(Tail(held)) = Len(held) - 1
      BY <1>0, <3>1, <3>2
    <3>4. \A i \in DOMAIN Tail(held) : i + 1 \in DOMAIN held
      BY <1>0, <3>2
    <3> QED BY <1>0, <2>1, <3>2, <3>3, <3>4
  <2>2. CASE ~ (Len(held) >= CacheMax)
    BY <1>0, <2>2
  <2> QED BY <2>1, <2>2
<1>2. after = IF \E i \in DOMAIN room : room[i].stamp = stamp
              THEN [i \in DOMAIN room |-> IF room[i].stamp = stamp THEN e ELSE room[i]]
              ELSE Append(room, e)
  BY DEF Put
<1> HIDE DEF room, e, after
<1>3. CASE \E i \in DOMAIN room : room[i].stamp = stamp
  <2>1. after = [i \in 1 .. Len(room) |-> IF room[i].stamp = stamp THEN e ELSE room[i]]
    BY <1>1, <1>2, <1>3
  <2>2. \A i \in 1 .. Len(room) : room[i] \in Entry
    BY <1>1
  <2>3. after \in [1 .. Len(room) -> Entry]
    BY <1>0, <2>1, <2>2
  <2>4. after \in Seq(Entry) /\ Len(after) = Len(room)
    BY <1>1, <2>3
  <2>5. \A i \in DOMAIN after : after[i] = e \/ \E j \in DOMAIN held : after[i] = held[j]
    BY <1>1, <2>1
  <2> QED BY <1>0, <1>1, <2>4, <2>5 DEF e, after
<1>4. CASE ~ \E i \in DOMAIN room : room[i].stamp = stamp
  <2>1. after = Append(room, e)
    BY <1>2, <1>4
  <2>2. after \in Seq(Entry) /\ Len(after) = Len(room) + 1 /\ DOMAIN after = 1 .. Len(room) + 1
        /\ \A i \in 1 .. Len(room) + 1 : after[i] = IF i = Len(room) + 1 THEN e ELSE room[i]
    BY <1>0, <1>1, <2>1, AppendProperties
  <2>3. \A i \in DOMAIN after : after[i] = e \/ \E j \in DOMAIN held : after[i] = held[j]
    BY <1>1, <2>2
  <2> QED BY <1>0, <1>1, <2>2, <2>3 DEF e, after
<1> QED BY <1>3, <1>4

ClassesTyped ==
    /\ content \in Contents /\ uploading \in {"no", "writing", "replaced"}
    /\ uploading = "writing" => content <= MaxUploads
    /\ poolContent \in {0} \cup Contents
    /\ rpcQueue \in Seq(Request)
    /\ introspection \in [at : {"listening", "stat", "extracted"}, request : Request \cup {NoRequest},
                          stamp : {0} \cup Contents, classes : {0} \cup Contents]
    /\ introspection.at # "listening" => introspection.request \in Request /\ introspection.stamp \in Contents
    /\ introspection.at = "extracted" => introspection.classes \in Contents
    /\ fromPool \subseteq Contents
ViewerTyped ==
    viewer \in [Viewers -> [at : {"idle", "stat", "asked", "shown", "refused"}, stamp : {0} \cup Contents,
                            since : {0} \cup Contents, told : {0} \cup Contents, request : 0 .. MaxAsks]]
CachesTyped ==
    /\ detectorCache \in Seq(Entry) /\ Len(detectorCache) <= CacheMax
    /\ webCache \in Seq(Entry) /\ Len(webCache) <= CacheMax

\* Classes at or after a stamp, but for a model that was loaded before.
NotBehind(stamp, classes, now, old) ==
    /\ stamp <= now
    /\ classes >= stamp \/ \E n \in old : n >= stamp
    /\ stamp = now /\ now \notin old => classes = now
EntriesHold(held, now, old) == \A i \in DOMAIN held : NotBehind(held[i].stamp, held[i].classes, now, old)

\* What the handler has read, and what the pages know.
IntrospectionHolds ==
    /\ introspection.at = "stat" => introspection.stamp <= content
    /\ introspection.at = "extracted" => NotBehind(introspection.stamp, introspection.classes, content, fromPool)
PagesKnow ==
    \A p \in Viewers :
        /\ viewer[p].stamp = viewer[p].since /\ viewer[p].since <= content
        /\ viewer[p].at # "idle" => viewer[p].request >= 1
        /\ viewer[p].at \in {"stat", "asked", "shown"} => viewer[p].since \in Contents
        /\ viewer[p].at = "shown" => viewer[p].told >= viewer[p].since \/ \E n \in fromPool : n >= viewer[p].since

\* The file the handler looked at for a request is the one its page had read, or later.
RequestsAreOlder ==
    /\ \A i \in DOMAIN rpcQueue : rpcQueue[i].number <= viewer[rpcQueue[i].page].request
    /\ introspection.at # "listening" =>
          LET r == introspection.request
          IN  /\ r.number <= viewer[r.page].request
              /\ r.number = viewer[r.page].request => viewer[r.page].since <= introspection.stamp

ClassesInv ==
    /\ ClassesTyped /\ ViewerTyped /\ CachesTyped
    /\ EntriesHold(detectorCache, content, fromPool) /\ EntriesHold(webCache, content, fromPool)
    /\ IntrospectionHolds /\ PagesKnow /\ RequestsAreOlder

LEMMA ContentsAreNaturals ==
    Contents \subseteq Nat /\ 1 \in Contents /\ 0 \notin Contents /\ \A n \in Contents : n >= 1 /\ n <= MaxUploads + 1
BY ClassesAssumption DEF Contents

LEMMA ClassesStart == ClassesInit => ClassesInv
<1> SUFFICES ASSUME ClassesInit PROVE ClassesInv
  OBVIOUS
<1>1. /\ content = 1 /\ uploading = "no" /\ poolContent \in {0, 1} /\ rpcQueue = <<>> /\ introspection = AtEase
      /\ detectorCache = <<>> /\ webCache = <<>> /\ fromPool = {}
      /\ viewer = [p \in Viewers |-> [at |-> "idle", stamp |-> 0, since |-> 0, told |-> 0, request |-> 0]]
  BY DEF ClassesInit
<1>2. ClassesTyped
  BY <1>1, ContentsAreNaturals DEF ClassesTyped, AtEase
<1>3. ViewerTyped
  BY <1>1, ClassesAssumption DEF ViewerTyped
<1>4. CachesTyped
  BY <1>1, ClassesAssumption DEF CachesTyped
<1>5. EntriesHold(detectorCache, content, fromPool) /\ EntriesHold(webCache, content, fromPool)
  BY <1>1 DEF EntriesHold
<1>6. IntrospectionHolds /\ PagesKnow /\ RequestsAreOlder
  BY <1>1 DEF IntrospectionHolds, PagesKnow, RequestsAreOlder, AtEase
<1> QED BY <1>2, <1>3, <1>4, <1>5, <1>6 DEF ClassesInv

\* What is not behind stays so as the file and the models loaded go on.
LEMMA NotBehindLater ==
    ASSUME NEW stamp \in Int, NEW classes \in Int, NEW now \in Int, NEW old, NotBehind(stamp, classes, now, old),
           NEW later \in Int, now <= later, NEW more, old \subseteq more
    PROVE  NotBehind(stamp, classes, later, more)
<1>1. stamp <= later
  BY DEF NotBehind
<1>2. classes >= stamp \/ \E n \in more : n >= stamp
  BY DEF NotBehind
<1>3. stamp = later /\ later \notin more => classes = later
  <2>1. stamp = later => now = later
    BY DEF NotBehind
  <2> QED BY <2>1 DEF NotBehind
<1> QED BY <1>1, <1>2, <1>3 DEF NotBehind

LEMMA EntriesHoldLater ==
    ASSUME NEW held \in Seq(Entry), NEW now \in Int, NEW old, EntriesHold(held, now, old),
           NEW later \in Int, now <= later, NEW more, old \subseteq more
    PROVE  EntriesHold(held, later, more)
<1>1. \A i \in DOMAIN held : held[i].stamp \in Int /\ held[i].classes \in Int
  <2>1. \A i \in DOMAIN held : held[i] \in Entry
    BY LenProperties, ElementOfSeq
  <2>2. \A e \in Entry : e.stamp \in Contents /\ e.classes \in Contents
    BY DEF Entry
  <2>3. \A n \in Contents : n \in Int
    BY ContentsAreNaturals
  <2> QED BY <2>1, <2>2, <2>3
<1> QED BY <1>1, NotBehindLater DEF EntriesHold

LEMMA EntriesHoldAfterPut ==
    ASSUME NEW held \in Seq(Entry), Len(held) <= CacheMax, NEW stamp \in Contents, NEW classes \in Contents,
           NEW now, NEW old, EntriesHold(held, now, old), NotBehind(stamp, classes, now, old)
    PROVE  EntriesHold(Put(held, stamp, classes), now, old)
<1> DEFINE after == Put(held, stamp, classes)
<1>1. \A i \in DOMAIN after : \/ after[i] = [stamp |-> stamp, classes |-> classes]
                              \/ \E j \in DOMAIN held : after[i] = held[j]
  BY PutEffect
<1> HIDE DEF after
<1>2. EntriesHold(after, now, old)
  BY <1>1 DEF EntriesHold
<1> QED BY <1>2 DEF after

LEMMA ClassesStep == ASSUME ClassesInv, [ClassesNext]_classVars PROVE ClassesInv'
<1> USE DEF ClassesInv
<1>0. content \in Nat /\ content \in Contents /\ \A n \in Contents : n \in Int
  BY ContentsAreNaturals DEF ClassesTyped
<1>1. CASE Upload
  <2>1. /\ uploading' = "writing" /\ content <= MaxUploads
        /\ UNCHANGED <<content, poolContent, viewer, rpcQueue, introspection, detectorCache, webCache, fromPool>>
    BY <1>1 DEF Upload
  <2> QED BY <2>1 DEF ClassesTyped, ViewerTyped, CachesTyped, IntrospectionHolds, PagesKnow, RequestsAreOlder
<1>2. CASE ReplaceModel
  <2>1. /\ \/ content' = content + 1 /\ uploading' = "replaced"
           \/ content' = content /\ uploading' = "no"
        /\ content <= MaxUploads
        /\ UNCHANGED <<poolContent, viewer, rpcQueue, introspection, detectorCache, webCache, fromPool>>
    BY <1>2 DEF ReplaceModel, ClassesTyped
  <2>2. content' \in Contents /\ content' \in Int /\ content <= content'
    BY <1>0, <2>1, ClassesAssumption DEF Contents
  <2>3. ClassesTyped' /\ ViewerTyped' /\ CachesTyped'
    BY <2>1, <2>2 DEF ClassesTyped, ViewerTyped, CachesTyped
  <2>4. EntriesHold(detectorCache', content', fromPool') /\ EntriesHold(webCache', content', fromPool')
    BY <1>0, <2>1, <2>2, EntriesHoldLater DEF CachesTyped
  <2>5. IntrospectionHolds'
    <3>1. introspection.at = "stat" => introspection.stamp \in Int
      BY <1>0 DEF ClassesTyped
    <3>2. introspection.at = "extracted" => introspection.stamp \in Int /\ introspection.classes \in Int
      BY <1>0 DEF ClassesTyped
    <3>3. introspection.at = "stat" => introspection.stamp <= content'
      BY <1>0, <2>2, <3>1 DEF IntrospectionHolds
    <3>4. introspection.at = "extracted" => NotBehind(introspection.stamp, introspection.classes, content', fromPool)
      BY <1>0, <2>2, <3>2, NotBehindLater DEF IntrospectionHolds
    <3> QED BY <2>1, <3>3, <3>4 DEF IntrospectionHolds
  <2>6. PagesKnow'
    <3>1. \A p \in Viewers : viewer[p].since \in Int
      <4>1. \A p \in Viewers : viewer[p].since \in {0} \cup Contents
        BY DEF ViewerTyped
      <4>2. \A n \in {0} \cup Contents : n \in Int
        BY <1>0
      <4> QED BY <4>1, <4>2
    <3> QED BY <1>0, <2>1, <2>2, <3>1 DEF PagesKnow
  <2>7. RequestsAreOlder'
    BY <2>1 DEF RequestsAreOlder
  <2> QED BY <2>3, <2>4, <2>5, <2>6, <2>7
<1>3. CASE ForgetClasses
  <2>1. /\ uploading' = "no" /\ webCache' = <<>>
        /\ UNCHANGED <<content, poolContent, viewer, rpcQueue, introspection, detectorCache, fromPool>>
    BY <1>3 DEF ForgetClasses
  <2>2. ClassesTyped' /\ ViewerTyped' /\ CachesTyped'
    BY <2>1, ClassesAssumption DEF ClassesTyped, ViewerTyped, CachesTyped
  <2>3. EntriesHold(detectorCache', content', fromPool') /\ EntriesHold(webCache', content', fromPool')
    BY <2>1 DEF EntriesHold
  <2>4. IntrospectionHolds' /\ PagesKnow' /\ RequestsAreOlder'
    BY <2>1 DEF IntrospectionHolds, PagesKnow, RequestsAreOlder
  <2> QED BY <2>2, <2>3, <2>4
<1>4. CASE PoolChanges
  <2>1. /\ poolContent' \in {0} \cup Contents
        /\ UNCHANGED <<content, uploading, viewer, rpcQueue, introspection, detectorCache, webCache, fromPool>>
    BY <1>0, <1>4 DEF PoolChanges
  <2> QED BY <2>1 DEF ClassesTyped, ViewerTyped, CachesTyped, IntrospectionHolds, PagesKnow, RequestsAreOlder
<1>5. ASSUME NEW p \in Viewers, AskWebCache(p) PROVE ClassesInv'
  <2>1. PICK hit \in Cached(webCache, content) :
            viewer' = [viewer EXCEPT ![p] =
               [at |-> IF hit = 0 THEN "stat" ELSE "shown", stamp |-> content, since |-> content,
                told |-> hit, request |-> viewer[p].request + 1]]
    BY <1>5 DEF AskWebCache, Stamp
  <2>2. /\ viewer[p].request < MaxAsks /\ viewer[p].request \in Nat
        /\ UNCHANGED <<content, uploading, poolContent, rpcQueue, introspection, detectorCache, webCache, fromPool>>
    BY <1>5, ClassesAssumption DEF AskWebCache, ViewerTyped
  <2>3. \/ hit = 0
        \/ hit \in Contents /\ (hit >= content \/ \E n \in fromPool : n >= content)
    <3>1. CASE hit = 0
      BY <3>1
    <3>2. CASE hit # 0
      <4>1. PICK i \in DOMAIN webCache : webCache[i].stamp = content /\ webCache[i].classes = hit
        BY <2>1, <3>2, CachedEffect DEF CachesTyped
      <4>2. webCache[i] \in Entry
        BY <4>1, LenProperties, ElementOfSeq DEF CachesTyped
      <4> QED BY <4>1, <4>2 DEF EntriesHold, NotBehind, Entry
    <3> QED BY <3>1, <3>2
  <2>4. hit \in {0} \cup Contents /\ (hit # 0 => hit >= content \/ \E n \in fromPool : n >= content)
    BY <2>3
  <2>5. ViewerTyped'
    BY <1>0, <2>1, <2>2, <2>4, ClassesAssumption DEF ViewerTyped
  <2>6. ClassesTyped' /\ CachesTyped'
    BY <2>2 DEF ClassesTyped, CachesTyped
  <2>7. EntriesHold(detectorCache', content', fromPool') /\ EntriesHold(webCache', content', fromPool')
    BY <2>2 DEF EntriesHold
  <2>8. IntrospectionHolds'
    BY <2>2 DEF IntrospectionHolds
  <2>9. PagesKnow'
    BY <1>0, <2>1, <2>2, <2>4 DEF PagesKnow, ViewerTyped
  <2>10. RequestsAreOlder'
    <3>1. /\ viewer'[p].request = viewer[p].request + 1
          /\ \A q \in Viewers : q # p => viewer'[q] = viewer[q]
      BY <2>1 DEF ViewerTyped
    <3>2. \A i \in DOMAIN rpcQueue : rpcQueue[i] \in Request
      BY LenProperties, ElementOfSeq DEF ClassesTyped
    <3>3. \A r \in Request : r.page \in Viewers /\ r.number \in Int
      BY ClassesAssumption DEF Request
    <3>4. introspection.at # "listening" => introspection.request \in Request
      BY DEF ClassesTyped
    <3>5. ASSUME NEW r \in Request, r.number <= viewer[r.page].request
          PROVE  /\ r.number <= viewer'[r.page].request
                 /\ r.number = viewer'[r.page].request => r.number = viewer[r.page].request /\ viewer'[r.page] = viewer[r.page]
      BY <2>2, <3>1, <3>3, <3>5
    <3>6. \A i \in DOMAIN rpcQueue : rpcQueue[i].number <= viewer'[rpcQueue[i].page].request
      BY <3>2, <3>5 DEF RequestsAreOlder
    <3>7. introspection.at # "listening" =>
             LET r == introspection.request
             IN  /\ r.number <= viewer'[r.page].request
                 /\ r.number = viewer'[r.page].request => viewer'[r.page].since <= introspection.stamp
      BY <3>4, <3>5 DEF RequestsAreOlder
    <3> QED BY <2>2, <3>6, <3>7 DEF RequestsAreOlder
  <2> QED BY <2>5, <2>6, <2>7, <2>8, <2>9, <2>10
<1>6. ASSUME NEW p \in Viewers, AskDetector(p) PROVE ClassesInv'
  <2> DEFINE r == [page |-> p, number |-> viewer[p].request]
  <2>1. /\ viewer[p].at = "stat" /\ viewer' = [viewer EXCEPT ![p].at = "asked"]
        /\ rpcQueue' = Append(rpcQueue, r) \/ rpcQueue' = rpcQueue
        /\ UNCHANGED <<content, uploading, poolContent, introspection, detectorCache, webCache, fromPool>>
    BY <1>6 DEF AskDetector
  <2>2. ViewerTyped'
    BY <2>1 DEF ViewerTyped
  <2>3. /\ viewer'[p].at = "asked"
        /\ \A q \in Viewers : /\ q # p => viewer'[q].at = viewer[q].at
                              /\ viewer'[q].stamp = viewer[q].stamp /\ viewer'[q].since = viewer[q].since
                              /\ viewer'[q].told = viewer[q].told /\ viewer'[q].request = viewer[q].request
    BY <2>1 DEF ViewerTyped
  <2>4. PagesKnow'
    BY <2>1, <2>3 DEF PagesKnow
  <2>5. EntriesHold(detectorCache', content', fromPool') /\ EntriesHold(webCache', content', fromPool')
        /\ IntrospectionHolds' /\ CachesTyped'
    BY <2>1 DEF EntriesHold, IntrospectionHolds, CachesTyped
  <2>6. \A i \in DOMAIN rpcQueue : rpcQueue[i] \in Request
    BY LenProperties, ElementOfSeq DEF ClassesTyped
  <2>7. \A s \in Request : s.page \in Viewers
    BY DEF Request
  <2>8. introspection.at # "listening" => introspection.request \in Request
    BY DEF ClassesTyped
  <2>9. CASE rpcQueue' = Append(rpcQueue, r)
    <3>1. r \in Request
      <4>1. viewer[p].request \in 0 .. MaxAsks /\ viewer[p].request >= 1
        BY <2>1 DEF ViewerTyped, PagesKnow
      <4> QED BY <4>1, ClassesAssumption DEF Request
    <3> HIDE DEF r
    <3>2. rpcQueue' \in Seq(Request) /\ Len(rpcQueue) \in Nat /\ DOMAIN rpcQueue = 1 .. Len(rpcQueue)
          /\ DOMAIN rpcQueue' = 1 .. Len(rpcQueue) + 1
          /\ \A i \in 1 .. Len(rpcQueue) + 1 : rpcQueue'[i] = IF i = Len(rpcQueue) + 1 THEN r ELSE rpcQueue[i]
      BY <2>9, <3>1, AppendProperties, LenProperties DEF ClassesTyped
    <3>3. ClassesTyped'
      BY <2>1, <3>2 DEF ClassesTyped
    <3>4. r.number <= viewer[r.page].request
      BY <1>0 DEF r, ViewerTyped
    <3>5. \A i \in DOMAIN rpcQueue' : rpcQueue'[i].number <= viewer[rpcQueue'[i].page].request
      BY <3>2, <3>4 DEF RequestsAreOlder
    <3>6. \A i \in DOMAIN rpcQueue' : rpcQueue'[i].page \in Viewers
      BY <2>6, <2>7, <3>1, <3>2
    <3>7. RequestsAreOlder'
      BY <2>1, <2>3, <2>7, <2>8, <3>5, <3>6 DEF RequestsAreOlder
    <3> QED BY <2>2, <2>4, <2>5, <3>3, <3>7
  <2>10. CASE rpcQueue' = rpcQueue
    <3>1. ClassesTyped'
      BY <2>1, <2>10 DEF ClassesTyped
    <3>2. RequestsAreOlder'
      BY <2>1, <2>3, <2>6, <2>7, <2>8, <2>10 DEF RequestsAreOlder
    <3> QED BY <2>2, <2>4, <2>5, <3>1, <3>2
  <2> QED BY <2>1, <2>9, <2>10
<1>7. ASSUME NEW p \in Viewers, AskTimesOut(p) PROVE ClassesInv'
  <2>1. /\ viewer[p].at = "asked" /\ viewer' = [viewer EXCEPT ![p].at = "refused"]
        /\ UNCHANGED <<content, uploading, poolContent, rpcQueue, introspection, detectorCache, webCache, fromPool>>
    BY <1>7 DEF AskTimesOut
  <2>2. ViewerTyped'
    BY <2>1 DEF ViewerTyped
  <2>3. /\ viewer'[p].at = "refused"
        /\ \A q \in Viewers : /\ q # p => viewer'[q].at = viewer[q].at
                              /\ viewer'[q].stamp = viewer[q].stamp /\ viewer'[q].since = viewer[q].since
                              /\ viewer'[q].told = viewer[q].told /\ viewer'[q].request = viewer[q].request
    BY <2>1 DEF ViewerTyped
  <2>4. PagesKnow'
    BY <2>1, <2>3 DEF PagesKnow
  <2>5. EntriesHold(detectorCache', content', fromPool') /\ EntriesHold(webCache', content', fromPool')
        /\ IntrospectionHolds' /\ CachesTyped' /\ ClassesTyped'
    BY <2>1 DEF EntriesHold, IntrospectionHolds, CachesTyped, ClassesTyped
  <2>6. \A i \in DOMAIN rpcQueue : rpcQueue[i] \in Request
    BY LenProperties, ElementOfSeq DEF ClassesTyped
  <2>7. \A s \in Request : s.page \in Viewers
    BY DEF Request
  <2>8. introspection.at # "listening" => introspection.request \in Request
    BY DEF ClassesTyped
  <2>9. RequestsAreOlder'
    BY <2>1, <2>3, <2>6, <2>7, <2>8 DEF RequestsAreOlder
  <2> QED BY <2>2, <2>4, <2>5, <2>9
<1>8. ASSUME NEW p \in Viewers, LookAgain(p) PROVE ClassesInv'
  <2>1. /\ viewer' = [viewer EXCEPT ![p] = [at |-> "idle", stamp |-> 0, since |-> 0, told |-> 0,
                                           request |-> viewer[p].request]]
        /\ UNCHANGED <<content, uploading, poolContent, rpcQueue, introspection, detectorCache, webCache, fromPool>>
    BY <1>8 DEF LookAgain
  <2>2. ViewerTyped'
    BY <2>1 DEF ViewerTyped
  <2>3. /\ viewer'[p].at = "idle" /\ viewer'[p].since = 0 /\ viewer'[p].stamp = 0
        /\ \A q \in Viewers : /\ q # p => viewer'[q] = viewer[q]
                              /\ viewer'[q].request = viewer[q].request
    BY <2>1 DEF ViewerTyped
  <2>4. PagesKnow'
    BY <1>0, <2>1, <2>3 DEF PagesKnow
  <2>5. EntriesHold(detectorCache', content', fromPool') /\ EntriesHold(webCache', content', fromPool')
        /\ IntrospectionHolds' /\ CachesTyped' /\ ClassesTyped'
    BY <2>1 DEF EntriesHold, IntrospectionHolds, CachesTyped, ClassesTyped
  <2>6. \A i \in DOMAIN rpcQueue : rpcQueue[i] \in Request
    BY LenProperties, ElementOfSeq DEF ClassesTyped
  <2>7. \A s \in Request : s.page \in Viewers
    BY DEF Request
  <2>8. introspection.at # "listening" => introspection.request \in Request /\ introspection.stamp \in Contents
    BY DEF ClassesTyped
  <2>9. \A i \in DOMAIN rpcQueue : rpcQueue[i].number <= viewer'[rpcQueue[i].page].request
    BY <2>3, <2>6, <2>7 DEF RequestsAreOlder
  <2>10. introspection.at # "listening" =>
             LET r == introspection.request
             IN  /\ r.number <= viewer'[r.page].request
                 /\ r.number = viewer'[r.page].request => viewer'[r.page].since <= introspection.stamp
    <3>1. introspection.at # "listening" => introspection.stamp >= 0
      <4>1. \A n \in Contents : n \in Int /\ n >= 0
        BY ClassesAssumption DEF Contents
      <4> QED BY <2>8, <4>1
    <3> QED BY <2>3, <2>7, <2>8, <3>1 DEF RequestsAreOlder
  <2>11. RequestsAreOlder'
    BY <2>1, <2>9, <2>10 DEF RequestsAreOlder
  <2> QED BY <2>2, <2>4, <2>5, <2>11
<1>9. CASE TakeQuery
  <2>1. PICK hit \in Cached(detectorCache, content) :
            introspection' = [at |-> IF hit = 0 THEN "stat" ELSE "extracted", request |-> Head(rpcQueue),
                              stamp |-> content, classes |-> hit]
    BY <1>9 DEF TakeQuery, Stamp
  <2>2. /\ rpcQueue # <<>> /\ rpcQueue' = Tail(rpcQueue)
        /\ UNCHANGED <<content, uploading, poolContent, viewer, detectorCache, webCache, fromPool>>
    BY <1>9 DEF TakeQuery
  <2>3. /\ Tail(rpcQueue) \in Seq(Request) /\ DOMAIN Tail(rpcQueue) = 1 .. Len(rpcQueue) - 1
        /\ \A i \in 1 .. Len(rpcQueue) - 1 : Tail(rpcQueue)[i] = rpcQueue[i + 1]
        /\ Head(rpcQueue) = rpcQueue[1] /\ Head(rpcQueue) \in Request
        /\ Len(rpcQueue) \in Nat /\ 1 <= Len(rpcQueue) /\ DOMAIN rpcQueue = 1 .. Len(rpcQueue)
    BY <2>2, TailEffect DEF ClassesTyped
  <2>4. \/ hit = 0
        \/ hit \in Contents /\ NotBehind(content, hit, content, fromPool)
    <3>1. CASE hit # 0
      <4>1. PICK i \in DOMAIN detectorCache : detectorCache[i].stamp = content /\ detectorCache[i].classes = hit
        BY <2>1, <3>1, CachedEffect DEF CachesTyped
      <4>2. detectorCache[i] \in Entry
        BY <4>1, LenProperties, ElementOfSeq DEF CachesTyped
      <4> QED BY <4>1, <4>2 DEF EntriesHold, Entry
    <3> QED BY <3>1
  <2>5. hit \in {0} \cup Contents /\ (hit # 0 => hit \in Contents)
    BY <2>4
  <2>6. ClassesTyped'
    BY <1>0, <2>1, <2>2, <2>3, <2>5 DEF ClassesTyped
  <2>7. ViewerTyped' /\ CachesTyped' /\ PagesKnow'
    BY <2>2 DEF ViewerTyped, CachesTyped, PagesKnow
  <2>8. EntriesHold(detectorCache', content', fromPool') /\ EntriesHold(webCache', content', fromPool')
    BY <2>2 DEF EntriesHold
  <2>9. IntrospectionHolds'
    BY <1>0, <2>1, <2>2, <2>4 DEF IntrospectionHolds
  <2>10. RequestsAreOlder'
    <3>1. \A i \in DOMAIN rpcQueue' : rpcQueue'[i].number <= viewer[rpcQueue'[i].page].request
      <4>1. \A i \in 1 .. Len(rpcQueue) - 1 : i + 1 \in DOMAIN rpcQueue
        BY <2>3
      <4> QED BY <2>2, <2>3, <4>1 DEF RequestsAreOlder
    <3>2. /\ Head(rpcQueue).number <= viewer[Head(rpcQueue).page].request
          /\ viewer[Head(rpcQueue).page].since <= content
      BY <2>3 DEF RequestsAreOlder, PagesKnow, Request
    <3> QED BY <2>1, <2>2, <3>1, <3>2 DEF RequestsAreOlder
  <2> QED BY <2>6, <2>7, <2>8, <2>9, <2>10
<1>10. CASE ExtractClasses
  <2> DEFINE classes == IF poolContent # 0 THEN poolContent ELSE content
             stamp == introspection.stamp
  <2>1. /\ introspection.at = "stat"
        /\ introspection' = [introspection EXCEPT !.at = "extracted", !.classes = classes]
        /\ detectorCache' = Put(detectorCache, stamp, classes)
        /\ fromPool' = IF poolContent # 0 /\ poolContent # content THEN fromPool \cup {content} ELSE fromPool
        /\ UNCHANGED <<content, uploading, poolContent, viewer, rpcQueue, webCache>>
    BY <1>10 DEF ExtractClasses
  <2>2. classes \in Contents /\ stamp \in Contents /\ stamp <= content /\ stamp \in Int
    BY <1>0, <2>1 DEF ClassesTyped, IntrospectionHolds
  <2>3. fromPool \subseteq fromPool' /\ fromPool' \subseteq Contents /\ (classes = content \/ content \in fromPool')
    BY <1>0, <2>1 DEF ClassesTyped
  <2> HIDE DEF classes, stamp
  <2>4. NotBehind(stamp, classes, content, fromPool')
    BY <1>0, <2>2, <2>3 DEF NotBehind
  <2>5. /\ introspection'.at = "extracted" /\ introspection'.classes = classes /\ introspection'.stamp = stamp
        /\ introspection'.request = introspection.request
        /\ introspection' \in [at : {"listening", "stat", "extracted"}, request : Request \cup {NoRequest},
                               stamp : {0} \cup Contents, classes : {0} \cup Contents]
    <3>1. introspection' = [[introspection EXCEPT !.at = "extracted"] EXCEPT !.classes = classes]
      BY <2>1
    <3> QED BY <2>2, <3>1 DEF ClassesTyped, stamp
  <2>6. ClassesTyped'
    BY <2>1, <2>2, <2>3, <2>5 DEF ClassesTyped
  <2>7. ViewerTyped' /\ CachesTyped'
    BY <2>1, <2>2, PutEffect DEF ViewerTyped, CachesTyped
  <2>8. EntriesHold(detectorCache, content, fromPool') /\ EntriesHold(webCache, content, fromPool')
    <3>1. content <= content /\ content \in Int
      BY <1>0
    <3> QED BY <2>3, <3>1, EntriesHoldLater DEF CachesTyped
  <2>9. EntriesHold(detectorCache', content', fromPool') /\ EntriesHold(webCache', content', fromPool')
    BY <2>1, <2>2, <2>4, <2>8, EntriesHoldAfterPut DEF CachesTyped
  <2>10. IntrospectionHolds'
    BY <2>1, <2>4, <2>5 DEF IntrospectionHolds
  <2>11. PagesKnow'
    BY <2>1, <2>3 DEF PagesKnow
  <2>12. RequestsAreOlder'
    BY <2>1, <2>5 DEF RequestsAreOlder, stamp
  <2> QED BY <2>6, <2>7, <2>9, <2>10, <2>11, <2>12
<1>11. CASE Reply
  <2> DEFINE r == introspection.request
             p == r.page
             classes == introspection.classes
  <2>1. /\ introspection.at = "extracted" /\ introspection' = AtEase
        /\ UNCHANGED <<content, uploading, poolContent, rpcQueue, detectorCache, fromPool>>
        /\ \/ /\ viewer[p].at = "asked" /\ viewer[p].request = r.number
              /\ viewer' = [viewer EXCEPT ![p].at = "shown", ![p].told = classes]
              /\ webCache' = Put(webCache, viewer[p].stamp, classes)
           \/ UNCHANGED <<viewer, webCache>>
    BY <1>11 DEF Reply, Awaits
  <2>2. r \in Request /\ p \in Viewers /\ classes \in Contents /\ introspection.stamp \in Contents
        /\ NotBehind(introspection.stamp, classes, content, fromPool)
    BY <2>1 DEF ClassesTyped, Request, IntrospectionHolds
  <2> HIDE DEF r, p, classes
  <2>3. ClassesTyped'
    BY <2>1 DEF ClassesTyped, AtEase
  <2>4. IntrospectionHolds'
    BY <2>1 DEF IntrospectionHolds, AtEase
  <2>5. CASE UNCHANGED <<viewer, webCache>>
    <3>1. EntriesHold(detectorCache', content', fromPool') /\ EntriesHold(webCache', content', fromPool')
      BY <2>1, <2>5 DEF EntriesHold
    <3>2. ViewerTyped' /\ CachesTyped' /\ PagesKnow'
      BY <2>1, <2>5 DEF ViewerTyped, CachesTyped, PagesKnow
    <3>3. RequestsAreOlder'
      BY <2>1, <2>5 DEF RequestsAreOlder, AtEase
    <3> QED BY <2>3, <2>4, <3>1, <3>2, <3>3
  <2>6. CASE /\ viewer[p].at = "asked" /\ viewer[p].request = r.number
             /\ viewer' = [viewer EXCEPT ![p].at = "shown", ![p].told = classes]
             /\ webCache' = Put(webCache, viewer[p].stamp, classes)
    <3>1. /\ viewer[p].stamp = viewer[p].since /\ viewer[p].since <= content /\ viewer[p].since \in Contents
          /\ viewer[p].since <= introspection.stamp
      BY <2>1, <2>2, <2>6 DEF PagesKnow, RequestsAreOlder, r, p
    <3>2. NotBehind(viewer[p].stamp, classes, content, fromPool)
      <4>1. /\ viewer[p].stamp \in Int /\ introspection.stamp \in Int /\ classes \in Int
            /\ \A n \in fromPool : n \in Int
        BY <1>0, <2>2, <3>1 DEF ClassesTyped
      <4> QED BY <1>0, <2>2, <3>1, <4>1 DEF NotBehind
    <3>3. viewer' = [viewer EXCEPT ![p] = [[viewer[p] EXCEPT !.at = "shown"] EXCEPT !.told = classes]]
      BY <2>2, <2>6 DEF ViewerTyped
    <3>4. ViewerTyped'
      BY <2>2, <3>3 DEF ViewerTyped
    <3>5. /\ viewer'[p].at = "shown" /\ viewer'[p].told = classes
          /\ \A q \in Viewers : /\ q # p => viewer'[q].at = viewer[q].at /\ viewer'[q].told = viewer[q].told
                                /\ viewer'[q].stamp = viewer[q].stamp /\ viewer'[q].since = viewer[q].since
                                /\ viewer'[q].request = viewer[q].request
      BY <2>2, <3>3 DEF ViewerTyped
    <3>6. CachesTyped'
      BY <2>1, <2>2, <2>6, <3>1, PutEffect DEF CachesTyped
    <3>7. EntriesHold(detectorCache', content', fromPool') /\ EntriesHold(webCache', content', fromPool')
      BY <2>1, <2>2, <2>6, <3>1, <3>2, EntriesHoldAfterPut DEF CachesTyped
    <3>8. PagesKnow'
      <4>1. classes >= viewer[p].since \/ \E n \in fromPool : n >= viewer[p].since
        BY <3>1, <3>2 DEF NotBehind
      <4>2. ASSUME NEW q \in Viewers, q # p
            PROVE  /\ viewer'[q].stamp = viewer'[q].since /\ viewer'[q].since <= content
                   /\ viewer'[q].at # "idle" => viewer'[q].request >= 1
                   /\ viewer'[q].at \in {"stat", "asked", "shown"} => viewer'[q].since \in Contents
                   /\ viewer'[q].at = "shown" =>
                         viewer'[q].told >= viewer'[q].since \/ \E n \in fromPool : n >= viewer'[q].since
        BY <3>5, <4>2 DEF PagesKnow
      <4>3. /\ viewer'[p].stamp = viewer'[p].since /\ viewer'[p].since <= content
            /\ viewer'[p].request >= 1 /\ viewer'[p].since \in Contents
            /\ viewer'[p].told >= viewer'[p].since \/ \E n \in fromPool : n >= viewer'[p].since
        BY <2>2, <2>6, <3>1, <3>5, <4>1 DEF PagesKnow
      <4> QED BY <2>1, <4>2, <4>3 DEF PagesKnow
    <3>9. RequestsAreOlder'
      <4>1. \A i \in DOMAIN rpcQueue : rpcQueue[i] \in Request
        BY LenProperties, ElementOfSeq DEF ClassesTyped
      <4>2. \A s \in Request : s.page \in Viewers
        BY DEF Request
      <4> QED BY <2>1, <3>5, <4>1, <4>2 DEF RequestsAreOlder, AtEase
    <3> QED BY <2>3, <2>4, <3>4, <3>6, <3>7, <3>8, <3>9
  <2> QED BY <2>1, <2>5, <2>6
<1>12. CASE UNCHANGED classVars
  BY <1>12 DEF classVars, ClassesTyped, ViewerTyped, CachesTyped, IntrospectionHolds, PagesKnow, RequestsAreOlder
<1> QED
  BY <1>1, <1>2, <1>3, <1>4, <1>5, <1>6, <1>7, <1>8, <1>9, <1>10, <1>11, <1>12 DEF ClassesNext

LEMMA ClassesInvSuffices == ClassesInv => ClassesHold
<1> SUFFICES ASSUME ClassesInv PROVE ClassesHold
  OBVIOUS
<1> USE DEF ClassesInv
<1>1. ClassesTypeOK
  <2>1. \A i \in 1 .. Len(rpcQueue) : rpcQueue[i] \in Request
    BY LenProperties, ElementOfSeq DEF ClassesTyped
  <2> QED BY <2>1 DEF ClassesTypeOK, ClassesTyped, ViewerTyped, CachesTyped
<1>2. CachesFollowUploads
  BY DEF CachesFollowUploads, EntriesHold, NotBehind, ToSet, Stamp
<1>3. ViewersSeeTheFile
  BY DEF ViewersSeeTheFile, PagesKnow
<1> QED BY <1>1, <1>2, <1>3 DEF ClassesHold

\* However uploads, cameras and answers fall between the looks of two services at a file, neither a
\* cache nor a page is behind it but for a model loaded before.  For any pages, uploads and cache sizes.
THEOREM ClassesAreOfTheFile == ClassesSpec => []ClassesHold
<1>1. ClassesInv /\ [ClassesNext]_classVars => ClassesInv'
  BY ClassesStep
<1> QED BY <1>1, ClassesStart, ClassesInvSuffices, PTL DEF ClassesSpec

-----------------------------------------------------------------------------
(* The comparison of two models.                                           *)

\* One less at some places of a sum is as much less of it.
LEMMA SumLessSome ==
    ASSUME NEW f, NEW g, NEW S, IsFiniteSet(S), NEW H, H \subseteq S,
           \A x \in S : f[x] \in Int /\ g[x] = f[x] - (IF x \in H THEN 1 ELSE 0)
    PROVE  SumFunctionOnSet(f, S) = SumFunctionOnSet(g, S) + Cardinality(H) /\ SumFunctionOnSet(g, S) \in Int
<1>0. \A s \in SUBSET S : /\ Summable(f, s) /\ Summable(g, s) /\ IsFiniteSet(s)
                          /\ Cardinality(s) \in Nat /\ Cardinality(s) <= Cardinality(S)
  <2>1. \A x \in S : f[x] \in Int /\ g[x] \in Int
    OBVIOUS
  <2> QED BY <2>1, FS_Subset, FS_CardinalityType DEF Summable
<1>g. \A s \in SUBSET S : SumFunctionOnSet(g, s) \in Int
  BY <1>0, SumWithout
<1> DEFINE N == {n \in Nat : \A s \in Small(S, n) :
                    SumFunctionOnSet(f, s) = SumFunctionOnSet(g, s) + Cardinality(H \cap s)}
<1>1. ASSUME NEW s, s = {} PROVE SumFunctionOnSet(f, s) = SumFunctionOnSet(g, s) + Cardinality(H \cap s)
  <2>1. Summable(f, s) /\ Summable(g, s)
    BY <1>0, <1>1
  <2>2. SumFunctionOnSet(f, s) = 0 /\ SumFunctionOnSet(g, s) = 0
    BY <1>1, <2>1, SumWithout
  <2>3. H \cap s = {}
    BY <1>1
  <2>4. Cardinality(H \cap s) = 0
    BY <2>3, FS_EmptySet
  <2> QED BY <2>2, <2>4
<1>2. 0 \in N
  <2>1. \A s \in Small(S, 0) : s = {}
    BY <1>0, FS_EmptySet DEF Small
  <2> QED BY <1>1, <2>1
<1>3. ASSUME NEW n \in Nat, n \in N PROVE n + 1 \in N
  <2>1. ASSUME NEW s \in Small(S, n + 1), s # {}
        PROVE  SumFunctionOnSet(f, s) = SumFunctionOnSet(g, s) + Cardinality(H \cap s)
    <3>1. PICK x \in s : TRUE
      BY <2>1
    <3> DEFINE t == s \ {x}
    <3>2. s \in SUBSET S /\ Cardinality(s) <= n + 1 /\ IsFiniteSet(s) /\ x \in S /\ t \in SUBSET S
      BY <1>0, <3>1 DEF Small
    <3>3. t \in Small(S, n)
      <4>1. Cardinality(t) = Cardinality(s) - 1 /\ Cardinality(s) \in Nat
        BY <3>1, <3>2, WithoutOne, FS_CardinalityType
      <4> QED BY <3>2, <4>1 DEF Small
    <3>4. SumFunctionOnSet(f, t) = SumFunctionOnSet(g, t) + Cardinality(H \cap t)
      BY <1>3, <3>3
    <3>5. SumFunctionOnSet(f, s) = f[x] + SumFunctionOnSet(f, t)
      <4>1. Summable(f, s)
        BY <1>0, <3>2
      <4> QED BY <4>1, <3>1, SumWithout
    <3>6. SumFunctionOnSet(g, s) = g[x] + SumFunctionOnSet(g, t) /\ SumFunctionOnSet(g, t) \in Int
      <4>1. Summable(g, s)
        BY <1>0, <3>2
      <4> QED BY <1>g, <4>1, <3>1, <3>2, SumWithout
    <3>7. Cardinality(H \cap s) = Cardinality(H \cap t) + (IF x \in H THEN 1 ELSE 0)
          /\ Cardinality(H \cap t) \in Nat
      <4>1. IsFiniteSet(H \cap s) /\ IsFiniteSet(H \cap t)
        BY <3>2, FS_Subset
      <4>2. CASE x \in H
        <5>1. H \cap t = (H \cap s) \ {x} /\ x \in H \cap s
          BY <3>1, <4>2
        <5>2. Cardinality(H \cap t) = Cardinality(H \cap s) - 1 /\ Cardinality(H \cap s) \in Nat
          BY <4>1, <5>1, WithoutOne, FS_CardinalityType
        <5>3. Cardinality(H \cap t) \in Nat
          BY <4>1, FS_CardinalityType
        <5> HIDE DEF t
        <5> QED BY <4>2, <5>2, <5>3
      <4>3. CASE x \notin H
        <5>1. H \cap t = H \cap s
          BY <4>3
        <5>2. Cardinality(H \cap t) \in Nat
          BY <4>1, FS_CardinalityType
        <5> QED BY <4>3, <5>1, <5>2
      <4> QED BY <4>2, <4>3
    <3>8. f[x] \in Int /\ g[x] = f[x] - (IF x \in H THEN 1 ELSE 0)
      BY <3>2
    <3> HIDE DEF t
    <3> QED BY <3>4, <3>5, <3>6, <3>7, <3>8
  <2> QED BY <1>1, <2>1
<1>4. Cardinality(S) \in N
  <2> HIDE DEF N
  <2> QED BY <1>0, <1>2, <1>3, NatSetInduction
<1>5. S \in Small(S, Cardinality(S)) /\ H \cap S = H
  BY <1>0 DEF Small
<1> QED BY <1>g, <1>4, <1>5

\* A model that was run over all the snapshots is judged by all of them.
LEMMA JudgedByAll ==
    ASSUME NEW truth \in Seq(Snapshots), NEW preds \in Seq(Seq(Boxes)), Len(preds) = Len(truth), NEW c
    PROVE  LET m == Metrics(truth, preds, c)
           IN  /\ m.tp + m.fn = Cardinality({k \in DOMAIN truth : GroundTruth[truth[k]] = c})
               /\ m.tp + m.fp = Found(preds, c)
<1> DEFINE judged == 1 .. (IF Len(truth) < Len(preds) THEN Len(truth) ELSE Len(preds))
           mine == {k \in judged : GroundTruth[truth[k]] = c}
           hits == {k \in mine : Hit(preds[k], c)}
           f == [k \in judged |-> OfClass(preds[k], c)]
           g == [k \in judged |-> OfClass(preds[k], c) - (IF k \in hits THEN 1 ELSE 0)]
           m == Metrics(truth, preds, c)
<1>0. Len(truth) \in Nat /\ judged = 1 .. Len(truth) /\ DOMAIN preds = judged /\ DOMAIN truth = judged
  BY LenProperties
<1>1. IsFiniteSet(judged) /\ IsFiniteSet(mine) /\ IsFiniteSet(hits) /\ IsFiniteSet(mine \ hits)
  <2>1. IsFiniteSet(judged)
    BY <1>0, FS_Interval
  <2> QED BY <2>1, FS_Subset
<1>2. m.tp = Cardinality(hits) /\ m.fn = Cardinality(mine \ hits) /\ m.fp = SumFunctionOnSet(g, judged)
  BY DEF Metrics
<1>3. Found(preds, c) = SumFunctionOnSet(f, judged)
  <2>1. f = [k \in DOMAIN preds |-> OfClass(preds[k], c)] /\ DOMAIN f = judged
    BY <1>0
  <2> QED BY <2>1 DEF Found, SumFunction
<1>4. \A k \in judged : f[k] \in Int /\ g[k] = f[k] - (IF k \in hits THEN 1 ELSE 0)
  <2>1. ASSUME NEW k \in judged PROVE OfClass(preds[k], c) \in Int
    <3>1. preds[k] \in Seq(Boxes)
      BY <1>0, ElementOfSeq
    <3>2. DOMAIN preds[k] = 1 .. Len(preds[k]) /\ Len(preds[k]) \in Nat
      BY <3>1, LenProperties
    <3>3. IsFiniteSet(DOMAIN preds[k])
      <4>1. IsFiniteSet(1 .. Len(preds[k]))
        <5>1. Len(preds[k]) \in Int /\ 1 \in Int
          BY <3>2
        <5> HIDE DEF judged, mine, hits, f, g, m
        <5> QED BY <5>1, FS_Interval
      <4> QED BY <3>2, <4>1
    <3>4. IsFiniteSet({j \in DOMAIN preds[k] : preds[k][j].class = c})
      BY <3>3, FS_Subset
    <3> QED BY <3>4, FS_CardinalityType DEF OfClass
  <2> HIDE DEF judged, hits
  <2> QED BY <2>1
<1>5. Cardinality(hits) + Cardinality(mine \ hits) = Cardinality(mine)
  <2>1. mine \cap hits = hits
    OBVIOUS
  <2> HIDE DEF mine, hits
  <2>2. Cardinality(mine \ hits) = Cardinality(mine) - Cardinality(mine \cap hits)
    BY <1>1, FS_Difference
  <2>3. Cardinality(mine) \in Nat /\ Cardinality(hits) \in Nat
    BY <1>1, FS_CardinalityType
  <2>4. Cardinality(mine \cap hits) = Cardinality(hits)
    BY <2>1
  <2> QED BY <2>2, <2>3, <2>4
<1>6. SumFunctionOnSet(f, judged) = SumFunctionOnSet(g, judged) + Cardinality(hits) /\ SumFunctionOnSet(g, judged) \in Int
  <2>1. hits \subseteq judged
    OBVIOUS
  <2> HIDE DEF f, g, hits, judged
  <2> QED BY <1>1, <1>4, <2>1, SumLessSome
<1>7. Cardinality(hits) \in Nat
  BY <1>1, FS_CardinalityType
<1>e. mine = {k \in DOMAIN truth : GroundTruth[truth[k]] = c}
  BY <1>0
<1> HIDE DEF f, g, hits
<1>8. m.tp + m.fn = Cardinality(mine)
  <2> HIDE DEF m, mine
  <2> QED BY <1>2, <1>5
<1>9. m.tp + m.fp = Found(preds, c)
  <2> HIDE DEF m, judged
  <2> QED BY <1>2, <1>3, <1>6, <1>7
<1> HIDE DEF mine, judged
<1> QED BY <1>8, <1>9, <1>e

Started == {p \in EvalPages : evalPage[p].at # "idle"}
Working == evaluator.at \notin {"away", "listening"}

EvalPagesTyped ==
    /\ evalPage \in [EvalPages -> [at : {"idle", "posted", "streaming", "shown", "gaveUp"},
                                   run : Nat, told : Nat, result : Nat]]
    /\ runs = Cardinality(Started)
    /\ \A p \in EvalPages : evalPage[p].run <= runs
EvaluatorTyped ==
    /\ evaluator \in [at : {"away", "listening", "loading", "A", "B", "computing", "resulted"}, run : Nat,
                      truth : Seq(Snapshots), next : Nat, a : Seq(Seq(Boxes)), b : Seq(Seq(Boxes))]
    /\ evalImages \subseteq Snapshots
    /\ progress \in [run : Nat, status : {"absent", "loading", "running", "computing", "complete", "error"}]
    /\ result \in [run : Nat, status : {"absent", "complete", "error"}]

\* Requests wait in the order of their runs, none of them as old as what is at work or done.
RequestsInTurn ==
    /\ evalQueue \in Seq(Nat)
    /\ \A i, j \in DOMAIN evalQueue : i < j => evalQueue[i] < evalQueue[j]
    /\ \A i \in DOMAIN evalQueue :
          evalQueue[i] <= runs /\ evalQueue[i] > result.run /\ evalQueue[i] > evaluator.run
    /\ evaluator.run <= runs /\ result.run <= runs

\* The result is as new as what the progress says is over, and the run at work no older.
ResultsInTurn ==
    /\ Working => evaluator.run >= result.run
    /\ evaluator.at = "resulted" => evaluator.run = result.run
    /\ progress.status \in {"complete", "error"} => progress.run <= result.run
ToldFirst ==
    \A p \in EvalPages :
        /\ evalPage[p].at = "streaming" => evalPage[p].told <= result.run
        /\ evalPage[p].at = "shown" => evalPage[p].told <= evalPage[p].result

\* How far the models have come.
EveryImageIsRun ==
    LET n == Len(evaluator.truth)
    IN  /\ evaluator.at = "loading" => evaluator.next = 1 /\ Len(evaluator.a) = 0 /\ Len(evaluator.b) = 0
        /\ evaluator.at = "A" =>
              evaluator.next \in 1 .. n + 1 /\ Len(evaluator.a) = evaluator.next - 1 /\ Len(evaluator.b) = 0
        /\ evaluator.at = "B" =>
              evaluator.next \in 1 .. n + 1 /\ Len(evaluator.a) = n /\ Len(evaluator.b) = evaluator.next - 1
        /\ evaluator.at \in {"computing", "resulted"} => Len(evaluator.a) = n /\ Len(evaluator.b) = n

EvaluationInv ==
    /\ EvalPagesTyped /\ EvaluatorTyped /\ RequestsInTurn /\ ResultsInTurn /\ ToldFirst /\ EveryImageIsRun

LEMMA RunsAreNaturals == runs = Cardinality(Started) => runs \in Nat /\ runs <= Cardinality(EvalPages)
<1>1. IsFiniteSet(EvalPages) /\ Started \subseteq EvalPages
  BY EvaluationAssumption DEF Started
<1>2. IsFiniteSet(Started) /\ Cardinality(Started) <= Cardinality(EvalPages)
  BY <1>1, FS_Subset
<1> QED BY <1>2, FS_CardinalityType

LEMMA EvaluationStart == EvaluationInit => EvaluationInv
<1> SUFFICES ASSUME EvaluationInit PROVE EvaluationInv
  OBVIOUS
<1>1. /\ evalPage = [p \in EvalPages |-> [at |-> "idle", run |-> 0, told |-> 0, result |-> 0]]
      /\ runs = 0 /\ evalQueue = <<>> /\ evaluator = Asleep /\ evalImages = Snapshots
      /\ progress = Absent /\ result = Absent
  BY DEF EvaluationInit
<1>2. Started = {}
  BY <1>1 DEF Started
<1>3. EvalPagesTyped
  BY <1>1, <1>2, FS_EmptySet DEF EvalPagesTyped
<1>4. EvaluatorTyped
  BY <1>1 DEF EvaluatorTyped, Asleep, Absent
<1>5. RequestsInTurn /\ ResultsInTurn
  BY <1>1 DEF RequestsInTurn, ResultsInTurn, Working, Asleep, Absent
<1>6. ToldFirst /\ EveryImageIsRun
  BY <1>1 DEF ToldFirst, EveryImageIsRun, Asleep
<1> QED BY <1>3, <1>4, <1>5, <1>6 DEF EvaluationInv

\* Both keys say that a run has failed.
LEMMA FailureIsToldInTurn ==
    ASSUME EvaluationInv, PublishError, Working, UNCHANGED <<evalPage, runs, evalQueue, evalImages>>
    PROVE  EvaluationInv'
<1> USE DEF EvaluationInv
<1>0. /\ evaluator.run \in Nat /\ runs \in Nat /\ result.run \in Nat /\ evaluator.run >= result.run
      /\ evaluator.run <= runs
  BY RunsAreNaturals DEF EvalPagesTyped, EvaluatorTyped, RequestsInTurn, ResultsInTurn
<1>1. /\ result' = [run |-> evaluator.run, status |-> "error"]
      /\ progress' = [run |-> evaluator.run, status |-> "error"]
      /\ evaluator' = [at |-> "listening", run |-> 0, truth |-> <<>>, next |-> 1, a |-> <<>>, b |-> <<>>]
  BY DEF PublishError, Asleep
<1>2. EvalPagesTyped'
  BY DEF EvalPagesTyped, Started
<1>3. EvaluatorTyped'
  BY <1>0, <1>1 DEF EvaluatorTyped
<1>4. RequestsInTurn'
  <2>1. \A i \in DOMAIN evalQueue : evalQueue[i] \in Nat
    BY LenProperties, ElementOfSeq DEF RequestsInTurn
  <2> QED BY <1>0, <1>1, <2>1 DEF RequestsInTurn
<1>5. ResultsInTurn' /\ EveryImageIsRun'
  BY <1>0, <1>1 DEF ResultsInTurn, Working, EveryImageIsRun
<1>6. ToldFirst'
  <2>1. \A p \in EvalPages : evalPage[p].told \in Nat
    BY DEF EvalPagesTyped
  <2> QED BY <1>0, <1>1, <2>1 DEF ToldFirst
<1> QED BY <1>2, <1>3, <1>4, <1>5, <1>6

\* A step of the evaluator that ends no run.
LEMMA ARunGoesOn ==
    ASSUME EvaluationInv, UNCHANGED <<evalPage, runs, evalQueue, result>>, evalImages' \subseteq evalImages,
           EvaluatorTyped', EveryImageIsRun', evaluator'.run = evaluator.run,
           Working' => Working, evaluator'.at = "resulted" => evaluator.at = "resulted",
           progress'.status \notin {"complete", "error"} \/ progress' = progress
    PROVE  EvaluationInv'
<1> USE DEF EvaluationInv
<1>1. EvalPagesTyped' /\ ToldFirst'
  BY DEF EvalPagesTyped, Started, ToldFirst
<1>2. RequestsInTurn'
  BY DEF RequestsInTurn
<1>3. ResultsInTurn'
  BY DEF ResultsInTurn
<1> QED BY <1>1, <1>2, <1>3

LEMMA EvaluationStep == ASSUME EvaluationInv, [EvaluationNext]_evalVars PROVE EvaluationInv'
<1> USE DEF EvaluationInv
<1>0. runs \in Nat /\ evaluator.run \in Nat /\ result.run \in Nat /\ progress.run \in Nat
      /\ evaluator.next \in Nat
  BY RunsAreNaturals DEF EvalPagesTyped, EvaluatorTyped
<1>q. \A i \in DOMAIN evalQueue : evalQueue[i] \in Nat
  BY LenProperties, ElementOfSeq DEF RequestsInTurn
<1>t. /\ evaluator.truth \in Seq(Snapshots) /\ Len(evaluator.truth) \in Nat
      /\ DOMAIN evaluator.truth = 1 .. Len(evaluator.truth)
      /\ evaluator.a \in Seq(Seq(Boxes)) /\ Len(evaluator.a) \in Nat
      /\ evaluator.b \in Seq(Seq(Boxes)) /\ Len(evaluator.b) \in Nat
  BY LenProperties DEF EvaluatorTyped
<1>1. ASSUME NEW p \in EvalPages, StartEvaluation(p) PROVE EvaluationInv'
  <2>1. /\ evalPage[p].at = "idle" /\ runs' = runs + 1
        /\ evalPage' = [evalPage EXCEPT ![p].at = "posted", ![p].run = runs + 1]
        /\ evalQueue' = IF evaluator.at = "away" THEN evalQueue ELSE Append(evalQueue, runs + 1)
        /\ UNCHANGED <<evaluator, evalImages, progress, result>>
    BY <1>1 DEF StartEvaluation
  <2>2. evalPage' = [evalPage EXCEPT ![p] = [[evalPage[p] EXCEPT !.at = "posted"] EXCEPT !.run = runs + 1]]
    BY <2>1 DEF EvalPagesTyped
  <2>3. /\ evalPage' \in [EvalPages -> [at : {"idle", "posted", "streaming", "shown", "gaveUp"},
                                        run : Nat, told : Nat, result : Nat]]
        /\ evalPage'[p].at = "posted" /\ evalPage'[p].run = runs + 1
        /\ \A q \in EvalPages : q # p => evalPage'[q] = evalPage[q]
    <3> DEFINE r == [[evalPage[p] EXCEPT !.at = "posted"] EXCEPT !.run = runs + 1]
               R == [at : {"idle", "posted", "streaming", "shown", "gaveUp"}, run : Nat, told : Nat, result : Nat]
    <3>1. runs + 1 \in Nat /\ evalPage[p] \in R
      BY <1>0 DEF EvalPagesTyped
    <3>2. r \in R /\ r.at = "posted" /\ r.run = runs + 1
      BY <3>1
    <3>3. evalPage' = [evalPage EXCEPT ![p] = r]
      BY <2>2
    <3> HIDE DEF r
    <3> QED BY <3>2, <3>3 DEF EvalPagesTyped
  <2>4. runs' = Cardinality(Started')
    <3>1. Started' = Started \cup {p} /\ p \notin Started /\ Started \subseteq EvalPages
      BY <2>1, <2>3 DEF Started
    <3>2. IsFiniteSet(Started)
      BY <3>1, EvaluationAssumption, FS_Subset
    <3>3. Cardinality(Started \cup {p}) = Cardinality(Started) + 1
      BY <3>1, <3>2, FS_AddElement
    <3> QED BY <2>1, <3>1, <3>3 DEF EvalPagesTyped
  <2>5. EvalPagesTyped'
    <3>1. \A q \in EvalPages : evalPage'[q].run <= runs + 1
      <4>1. \A q \in EvalPages : evalPage[q].run \in Nat /\ evalPage[q].run <= runs
        BY DEF EvalPagesTyped
      <4> QED BY <1>0, <2>3, <4>1
    <3> QED BY <2>1, <2>3, <2>4, <3>1 DEF EvalPagesTyped
  <2>6. ToldFirst'
    BY <2>1, <2>3 DEF ToldFirst
  <2>7. EvaluatorTyped' /\ EveryImageIsRun' /\ ResultsInTurn'
    BY <2>1 DEF EvaluatorTyped, EveryImageIsRun, ResultsInTurn, Working
  <2>8. RequestsInTurn'
    <3>1. CASE evalQueue' = evalQueue
      BY <1>0, <1>q, <2>1, <3>1 DEF RequestsInTurn
    <3>2. CASE evalQueue' = Append(evalQueue, runs + 1)
      <4>1. /\ evalQueue' \in Seq(Nat) /\ Len(evalQueue) \in Nat /\ DOMAIN evalQueue = 1 .. Len(evalQueue)
            /\ DOMAIN evalQueue' = 1 .. Len(evalQueue) + 1
            /\ \A i \in 1 .. Len(evalQueue) + 1 :
                  evalQueue'[i] = IF i = Len(evalQueue) + 1 THEN runs + 1 ELSE evalQueue[i]
        BY <1>0, <3>2, AppendProperties, LenProperties DEF RequestsInTurn
      <4>2. \A i \in DOMAIN evalQueue : evalQueue[i] <= runs /\ evalQueue[i] > result.run /\ evalQueue[i] > evaluator.run
        BY DEF RequestsInTurn
      <4>3. \A i, j \in DOMAIN evalQueue' : i < j => evalQueue'[i] < evalQueue'[j]
        <5> SUFFICES ASSUME NEW i \in DOMAIN evalQueue', NEW j \in DOMAIN evalQueue', i < j
                     PROVE  evalQueue'[i] < evalQueue'[j]
          OBVIOUS
        <5>1. i \in DOMAIN evalQueue /\ evalQueue'[i] = evalQueue[i] /\ evalQueue[i] \in Nat
          BY <1>q, <4>1
        <5>2. CASE j = Len(evalQueue) + 1
          <6>1. evalQueue'[j] = runs + 1
            BY <4>1, <5>2
          <6>2. evalQueue[i] <= runs
            BY <4>2, <5>1
          <6> QED BY <1>0, <5>1, <6>1, <6>2
        <5>3. CASE j # Len(evalQueue) + 1
          <6>1. j \in DOMAIN evalQueue /\ evalQueue'[j] = evalQueue[j]
            BY <4>1, <5>3
          <6> QED BY <5>1, <6>1 DEF RequestsInTurn
        <5> QED BY <5>2, <5>3
      <4>4. \A i \in DOMAIN evalQueue' :
               evalQueue'[i] <= runs + 1 /\ evalQueue'[i] > result.run /\ evalQueue'[i] > evaluator.run
        <5> SUFFICES ASSUME NEW i \in DOMAIN evalQueue'
                     PROVE  evalQueue'[i] <= runs + 1 /\ evalQueue'[i] > result.run /\ evalQueue'[i] > evaluator.run
          OBVIOUS
        <5>1. result.run <= runs /\ evaluator.run <= runs
          BY DEF RequestsInTurn
        <5>2. CASE i = Len(evalQueue) + 1
          <6>1. evalQueue'[i] = runs + 1
            BY <4>1, <5>2
          <6> QED BY <1>0, <5>1, <6>1
        <5>3. CASE i # Len(evalQueue) + 1
          <6>1. i \in DOMAIN evalQueue /\ evalQueue'[i] = evalQueue[i]
            BY <4>1, <5>3
          <6>2. evalQueue[i] \in Nat /\ evalQueue[i] <= runs /\ evalQueue[i] > result.run /\ evalQueue[i] > evaluator.run
            BY <1>q, <4>2, <6>1
          <6> QED BY <1>0, <6>1, <6>2
        <5> QED BY <5>2, <5>3
      <4> QED BY <1>0, <2>1, <4>1, <4>3, <4>4, SMTT(20) DEF RequestsInTurn
    <3> QED BY <2>1, <3>1, <3>2
  <2> QED BY <2>5, <2>6, <2>7, <2>8
<1>2. ASSUME NEW p \in EvalPages, ReadProgress(p) \/ ReadResult(p) \/ PollingEnds(p) PROVE EvaluationInv'
  <2>1. /\ UNCHANGED <<runs, evalQueue, evaluator, evalImages, progress, result>>
        /\ evalPage[p].at \in {"posted", "streaming"}
        /\ \/ evalPage' = evalPage
           \/ /\ evalPage' = [evalPage EXCEPT ![p].at = "streaming", ![p].told = progress.run]
              /\ progress.status \in {"complete", "error"}
           \/ /\ evalPage[p].at = "streaming"
              /\ evalPage' = [evalPage EXCEPT ![p].at = "shown", ![p].result = result.run]
           \/ evalPage' = [evalPage EXCEPT ![p].at = "gaveUp"]
    BY <1>2 DEF ReadProgress, ReadResult, PollingEnds
  <2>2. /\ evalPage' \in [EvalPages -> [at : {"idle", "posted", "streaming", "shown", "gaveUp"},
                                        run : Nat, told : Nat, result : Nat]]
        /\ evalPage'[p].at # "idle" /\ evalPage'[p].run = evalPage[p].run
        /\ \A q \in EvalPages : q # p => evalPage'[q] = evalPage[q]
        /\ evalPage'[p].at = "streaming" => evalPage'[p].told <= result.run
        /\ evalPage'[p].at = "shown" => evalPage'[p].told <= evalPage'[p].result
    <3>1. CASE evalPage' = evalPage
      BY <2>1, <3>1 DEF EvalPagesTyped, ToldFirst
    <3>2. CASE /\ evalPage' = [evalPage EXCEPT ![p].at = "streaming", ![p].told = progress.run]
               /\ progress.status \in {"complete", "error"}
      <4>1. evalPage' = [evalPage EXCEPT ![p] = [[evalPage[p] EXCEPT !.at = "streaming"] EXCEPT !.told = progress.run]]
        BY <3>2 DEF EvalPagesTyped
      <4> QED BY <1>0, <3>2, <4>1 DEF EvalPagesTyped, ResultsInTurn
    <3>3. CASE /\ evalPage[p].at = "streaming"
               /\ evalPage' = [evalPage EXCEPT ![p].at = "shown", ![p].result = result.run]
      <4>1. evalPage' = [evalPage EXCEPT ![p] = [[evalPage[p] EXCEPT !.at = "shown"] EXCEPT !.result = result.run]]
        BY <3>3 DEF EvalPagesTyped
      <4>2. evalPage[p].told <= result.run
        BY <3>3 DEF ToldFirst
      <4> QED BY <1>0, <4>1, <4>2 DEF EvalPagesTyped
    <3>4. CASE evalPage' = [evalPage EXCEPT ![p].at = "gaveUp"]
      BY <3>4 DEF EvalPagesTyped
    <3> QED BY <2>1, <3>1, <3>2, <3>3, <3>4
  <2>3. Started' = Started
    BY <2>1, <2>2 DEF Started
  <2>4. EvalPagesTyped'
    BY <2>1, <2>2, <2>3 DEF EvalPagesTyped
  <2>5. ToldFirst'
    BY <2>1, <2>2 DEF ToldFirst
  <2>6. EvaluatorTyped' /\ RequestsInTurn' /\ ResultsInTurn' /\ EveryImageIsRun'
    BY <2>1 DEF EvaluatorTyped, RequestsInTurn, ResultsInTurn, EveryImageIsRun, Working
  <2> QED BY <2>4, <2>5, <2>6
<1>3. CASE EvaluatorSubscribes \/ EvaluatorLost
  <2>1. /\ \E at \in {"away", "listening"} :
              evaluator' = [at |-> at, run |-> 0, truth |-> <<>>, next |-> 1, a |-> <<>>, b |-> <<>>]
        /\ evalQueue' = evalQueue \/ evalQueue' = <<>>
        /\ UNCHANGED <<evalPage, runs, evalImages, progress, result>>
    BY <1>3 DEF EvaluatorSubscribes, EvaluatorLost, Asleep
  <2>2. EvaluatorTyped'
    <3>1. evaluator' \in [at : {"away", "listening", "loading", "A", "B", "computing", "resulted"}, run : Nat,
                          truth : Seq(Snapshots), next : Nat, a : Seq(Seq(Boxes)), b : Seq(Seq(Boxes))]
      BY <2>1
    <3> QED BY <2>1, <3>1 DEF EvaluatorTyped
  <2>3. evaluator'.run = 0
    BY <2>1
  <2>4. RequestsInTurn'
    <3>1. CASE evalQueue' = evalQueue
      BY <1>0, <1>q, <2>1, <2>3, <3>1 DEF RequestsInTurn
    <3>2. CASE evalQueue' = <<>>
      BY <1>0, <2>1, <2>3, <3>2 DEF RequestsInTurn
    <3> QED BY <2>1, <3>1, <3>2
  <2>5. ResultsInTurn' /\ EveryImageIsRun'
    <3>1. evaluator'.at \in {"away", "listening"}
      BY <2>1
    <3> QED BY <2>1, <3>1 DEF ResultsInTurn, EveryImageIsRun, Working
  <2>6. EvalPagesTyped' /\ ToldFirst'
    BY <2>1 DEF EvalPagesTyped, Started, ToldFirst
  <2> QED BY <2>2, <2>4, <2>5, <2>6
<1>4. CASE TakeRequest
  <2>1. /\ evaluator.at = "listening" /\ evalQueue # <<>> /\ evalQueue' = Tail(evalQueue)
        /\ UNCHANGED <<evalPage, runs, evalImages, progress, result>>
    BY <1>4 DEF TakeRequest
  <2>2. PICK truth \in InOrder(evalImages) :
            evaluator' = [at |-> "loading", run |-> Head(evalQueue), truth |-> truth, next |-> 1,
                          a |-> <<>>, b |-> <<>>]
    BY <1>4 DEF TakeRequest, Asleep
  <2>3. truth \in Seq(Snapshots)
    <3>1. IsFiniteSet(evalImages)
      <4>1. Len(GroundTruth) \in Nat
        BY EvaluationAssumption, LenProperties
      <4>2. IsFiniteSet(Snapshots)
        BY <4>1, FS_Interval DEF Snapshots
      <4> QED BY <4>2, FS_Subset DEF EvaluatorTyped
    <3>2. Cardinality(evalImages) \in Nat
      BY <3>1, FS_CardinalityType
    <3>3. truth \in [1 .. Cardinality(evalImages) -> Snapshots]
      BY DEF InOrder, EvaluatorTyped
    <3> HIDE DEF EvaluationInv
    <3> QED BY <3>2, <3>3
  <2>4. /\ Tail(evalQueue) \in Seq(Nat) /\ DOMAIN Tail(evalQueue) = 1 .. Len(evalQueue) - 1
        /\ \A i \in 1 .. Len(evalQueue) - 1 : Tail(evalQueue)[i] = evalQueue[i + 1]
        /\ Head(evalQueue) = evalQueue[1] /\ Head(evalQueue) \in Nat
        /\ Len(evalQueue) \in Nat /\ 1 <= Len(evalQueue) /\ DOMAIN evalQueue = 1 .. Len(evalQueue)
    BY <2>1, TailEffect DEF RequestsInTurn
  <2>5. \A i \in 1 .. Len(evalQueue) - 1 : i + 1 \in DOMAIN evalQueue /\ 1 \in DOMAIN evalQueue /\ 1 < i + 1
    BY <2>4
  <2>6. EvaluatorTyped'
    BY <2>1, <2>2, <2>3, <2>4 DEF EvaluatorTyped
  <2>7. evaluator'.run = evalQueue[1] /\ evalQueue[1] <= runs /\ evalQueue[1] > result.run /\ evaluator'.at = "loading"
    BY <2>2, <2>4 DEF RequestsInTurn
  <2>8. RequestsInTurn'
    <3>1. \A i, j \in DOMAIN evalQueue' : i < j => evalQueue'[i] < evalQueue'[j]
      BY <2>1, <2>4, <2>5, SMTT(20) DEF RequestsInTurn
    <3>2. \A i \in DOMAIN evalQueue' :
             evalQueue'[i] <= runs /\ evalQueue'[i] > result.run /\ evalQueue'[i] > evalQueue[1]
      BY <1>q, <2>1, <2>4, <2>5 DEF RequestsInTurn
    <3> QED BY <2>1, <2>4, <2>7, <3>1, <3>2 DEF RequestsInTurn
  <2>9. ResultsInTurn'
    <3>1. evalQueue[1] \in Nat
      BY <2>4
    <3> QED BY <1>0, <2>1, <2>7, <3>1 DEF ResultsInTurn
  <2>10. EveryImageIsRun'
    BY <2>2 DEF EveryImageIsRun
  <2>11. EvalPagesTyped' /\ ToldFirst'
    BY <2>1 DEF EvalPagesTyped, Started, ToldFirst
  <2> QED BY <2>6, <2>8, <2>9, <2>10, <2>11
<1>5. CASE LoadGroundTruth
  <2>1. CASE evaluator.truth = <<>>
    <3>1. PublishError /\ Working /\ UNCHANGED <<evalPage, runs, evalQueue, evalImages>>
      BY <1>5, <2>1 DEF LoadGroundTruth, Working
    <3> QED BY <3>1, FailureIsToldInTurn
  <2>2. CASE evaluator.truth # <<>>
    <3>1. /\ evaluator.at = "loading" /\ evaluator' = [evaluator EXCEPT !.at = "A"]
          /\ progress' = [run |-> evaluator.run, status |-> "loading"]
          /\ UNCHANGED <<evalPage, runs, evalQueue, evalImages, result>>
      BY <1>5, <2>2 DEF LoadGroundTruth
    <3>2. EvaluatorTyped' /\ evaluator'.run = evaluator.run /\ evaluator'.at = "A"
      BY <1>0, <3>1 DEF EvaluatorTyped
    <3>3. EveryImageIsRun'
      BY <1>t, <3>1 DEF EveryImageIsRun, EvaluatorTyped
    <3>4. Working /\ evalImages' \subseteq evalImages /\ evaluator'.at # "resulted"
          /\ progress'.status \notin {"complete", "error"}
      BY <3>1, <3>2 DEF Working
    <3> QED BY <3>1, <3>2, <3>3, <3>4, ARunGoesOn
  <2> QED BY <2>1, <2>2
<1>6. ASSUME NEW preds \in Seq(Seq(Boxes)), NEW i, NEW found \in Predictions
      PROVE  AddPrediction(preds, i, found) \in Seq(Seq(Boxes)) /\ Len(AddPrediction(preds, i, found)) = Len(preds) + 1
  <2>1. (IF i \in evalImages THEN found ELSE <<>>) \in Seq(Boxes)
    BY EvaluationAssumption
  <2> QED BY <2>1, AppendProperties DEF AddPrediction
<1>7. CASE RunModelA \/ RunModelB
  <2>1. /\ UNCHANGED <<evalPage, runs, evalQueue, evalImages, result>>
        /\ progress' = [run |-> evaluator.run, status |-> progress'.status]
        /\ progress'.status \in {"running", "computing"}
        /\ \/ /\ evaluator.at = "A" /\ evaluator.next > Len(evaluator.truth)
              /\ evaluator' = [evaluator EXCEPT !.at = "B", !.next = 1]
           \/ /\ evaluator.at = "A" /\ ~ (evaluator.next > Len(evaluator.truth))
              /\ \E found \in Predictions :
                    evaluator' = [evaluator EXCEPT !.next = evaluator.next + 1,
                                     !.a = AddPrediction(evaluator.a, evaluator.truth[evaluator.next], found)]
           \/ /\ evaluator.at = "B" /\ evaluator.next > Len(evaluator.truth)
              /\ evaluator' = [evaluator EXCEPT !.at = "computing"]
           \/ /\ evaluator.at = "B" /\ ~ (evaluator.next > Len(evaluator.truth))
              /\ \E found \in Predictions :
                    evaluator' = [evaluator EXCEPT !.next = evaluator.next + 1,
                                     !.b = AddPrediction(evaluator.b, evaluator.truth[evaluator.next], found)]
    <3>1. CASE RunModelA
      BY <3>1 DEF RunModelA
    <3>2. CASE RunModelB
      <4>1. /\ evaluator.at = "B" /\ UNCHANGED <<evalPage, runs, evalQueue, evalImages, result>>
            /\ IF evaluator.next > Len(evaluator.truth)
               THEN evaluator' = [evaluator EXCEPT !.at = "computing"]
               ELSE \E found \in Predictions :
                       evaluator' = [evaluator EXCEPT !.next = evaluator.next + 1,
                                        !.b = AddPrediction(evaluator.b, evaluator.truth[evaluator.next], found)]
        BY <3>2 DEF RunModelB
      <4>2. \/ progress' = [run |-> evaluator.run, status |-> "computing"]
            \/ progress' = [run |-> evaluator.run, status |-> "running"]
        BY <3>2 DEF RunModelB
      <4>3. /\ progress' = [run |-> evaluator.run, status |-> progress'.status]
            /\ progress'.status \in {"running", "computing"}
        BY <4>2
      <4>4. CASE evaluator.next > Len(evaluator.truth)
        BY <4>1, <4>3, <4>4
      <4>5. CASE ~ (evaluator.next > Len(evaluator.truth))
        BY <4>1, <4>3, <4>5
      <4> QED BY <4>4, <4>5
    <3> QED BY <1>7, <3>1, <3>2
  <2> DEFINE E == [at : {"away", "listening", "loading", "A", "B", "computing", "resulted"}, run : Nat,
                   truth : Seq(Snapshots), next : Nat, a : Seq(Seq(Boxes)), b : Seq(Seq(Boxes))]
  <2>2. /\ evaluator' \in E /\ evaluator'.run = evaluator.run /\ Working /\ evaluator'.at # "resulted"
        /\ EveryImageIsRun'
    <3>1. CASE evaluator.at = "A" /\ evaluator.next > Len(evaluator.truth)
      <4>1. evaluator' = [[evaluator EXCEPT !.at = "B"] EXCEPT !.next = 1]
        BY <2>1, <3>1
      <4>2. evaluator' \in E /\ evaluator'.at = "B" /\ evaluator'.next = 1 /\ evaluator'.run = evaluator.run
            /\ evaluator'.truth = evaluator.truth /\ evaluator'.a = evaluator.a /\ evaluator'.b = evaluator.b
        BY <4>1 DEF EvaluatorTyped
      <4>3. Len(evaluator.a) = Len(evaluator.truth) /\ Len(evaluator.b) = 0
        BY <1>0, <1>t, <3>1 DEF EveryImageIsRun
      <4>4. EveryImageIsRun'
        BY <1>t, <4>2, <4>3 DEF EveryImageIsRun
      <4> QED BY <3>1, <4>2, <4>4 DEF Working
    <3>2. CASE evaluator.at = "A" /\ ~ (evaluator.next > Len(evaluator.truth))
      <4> DEFINE i == evaluator.truth[evaluator.next]
      <4>1. PICK found \in Predictions :
               evaluator' = [[evaluator EXCEPT !.next = evaluator.next + 1] EXCEPT !.a = AddPrediction(evaluator.a, i, found)]
        BY <2>1, <3>2
      <4> DEFINE more == AddPrediction(evaluator.a, i, found)
      <4>2. more \in Seq(Seq(Boxes)) /\ Len(more) = Len(evaluator.a) + 1
        BY <1>6, <1>t
      <4> HIDE DEF more, i
      <4>3. evaluator' \in E /\ evaluator'.at = "A" /\ evaluator'.next = evaluator.next + 1 /\ evaluator'.run = evaluator.run
            /\ evaluator'.truth = evaluator.truth /\ evaluator'.a = more /\ evaluator'.b = evaluator.b
        <5> DEFINE e == [evaluator EXCEPT !.next = evaluator.next + 1]
        <5>1. evaluator \in E /\ evaluator.next + 1 \in Nat
          BY <1>0 DEF EvaluatorTyped
        <5>2. e \in E /\ e.at = evaluator.at /\ e.next = evaluator.next + 1 /\ e.run = evaluator.run
              /\ e.truth = evaluator.truth /\ e.a = evaluator.a /\ e.b = evaluator.b
          BY <5>1
        <5>3. evaluator' = [e EXCEPT !.a = more]
          BY <4>1 DEF more
        <5> HIDE DEF e
        <5> QED BY <3>2, <4>2, <5>2, <5>3
      <4>4. evaluator.next \in 1 .. Len(evaluator.truth) + 1 /\ Len(evaluator.a) = evaluator.next - 1 /\ Len(evaluator.b) = 0
        BY <3>2 DEF EveryImageIsRun
      <4>5. EveryImageIsRun'
        <5>1. /\ evaluator'.next \in 1 .. Len(evaluator.truth) + 1
              /\ Len(evaluator'.a) = evaluator'.next - 1 /\ Len(evaluator'.b) = 0
          <6>1. evaluator'.next = evaluator.next + 1 /\ evaluator'.a = more /\ evaluator'.b = evaluator.b
            BY <4>3
          <6>2. evaluator.next + 1 \in 1 .. Len(evaluator.truth) + 1
            BY <1>0, <1>t, <3>2, <4>4
          <6>3. Len(more) = evaluator.next + 1 - 1
            BY <1>0, <1>t, <4>2, <4>4
          <6> QED BY <4>4, <6>1, <6>2, <6>3
        <5> QED BY <4>3, <5>1 DEF EveryImageIsRun
      <4> QED BY <3>2, <4>3, <4>5 DEF Working
    <3>3. CASE evaluator.at = "B" /\ evaluator.next > Len(evaluator.truth)
      <4>1. evaluator' = [evaluator EXCEPT !.at = "computing"]
        BY <2>1, <3>3
      <4>2. evaluator' \in E /\ evaluator'.at = "computing" /\ evaluator'.run = evaluator.run
            /\ evaluator'.truth = evaluator.truth /\ evaluator'.a = evaluator.a /\ evaluator'.b = evaluator.b
        BY <4>1 DEF EvaluatorTyped
      <4>3. Len(evaluator.a) = Len(evaluator.truth) /\ Len(evaluator.b) = Len(evaluator.truth)
        BY <1>0, <1>t, <3>3 DEF EveryImageIsRun
      <4>4. EveryImageIsRun'
        BY <1>t, <4>2, <4>3 DEF EveryImageIsRun
      <4> QED BY <3>3, <4>2, <4>4 DEF Working
    <3>4. CASE evaluator.at = "B" /\ ~ (evaluator.next > Len(evaluator.truth))
      <4> DEFINE i == evaluator.truth[evaluator.next]
      <4>1. PICK found \in Predictions :
               evaluator' = [[evaluator EXCEPT !.next = evaluator.next + 1] EXCEPT !.b = AddPrediction(evaluator.b, i, found)]
        BY <2>1, <3>4
      <4> DEFINE more == AddPrediction(evaluator.b, i, found)
      <4>2. more \in Seq(Seq(Boxes)) /\ Len(more) = Len(evaluator.b) + 1
        BY <1>6, <1>t
      <4> HIDE DEF more, i
      <4>3. evaluator' \in E /\ evaluator'.at = "B" /\ evaluator'.next = evaluator.next + 1 /\ evaluator'.run = evaluator.run
            /\ evaluator'.truth = evaluator.truth /\ evaluator'.a = evaluator.a /\ evaluator'.b = more
        <5> DEFINE e == [evaluator EXCEPT !.next = evaluator.next + 1]
        <5>1. evaluator \in E /\ evaluator.next + 1 \in Nat
          BY <1>0 DEF EvaluatorTyped
        <5>2. e \in E /\ e.at = evaluator.at /\ e.next = evaluator.next + 1 /\ e.run = evaluator.run
              /\ e.truth = evaluator.truth /\ e.a = evaluator.a /\ e.b = evaluator.b
          BY <5>1
        <5>3. evaluator' = [e EXCEPT !.b = more]
          BY <4>1 DEF more
        <5> HIDE DEF e
        <5> QED BY <3>4, <4>2, <5>2, <5>3
      <4>4. evaluator.next \in 1 .. Len(evaluator.truth) + 1 /\ Len(evaluator.a) = Len(evaluator.truth)
            /\ Len(evaluator.b) = evaluator.next - 1
        BY <3>4 DEF EveryImageIsRun
      <4>5. EveryImageIsRun'
        <5>1. /\ evaluator'.next \in 1 .. Len(evaluator.truth) + 1
              /\ Len(evaluator'.a) = Len(evaluator.truth) /\ Len(evaluator'.b) = evaluator'.next - 1
          <6>1. evaluator'.next = evaluator.next + 1 /\ evaluator'.b = more /\ evaluator'.a = evaluator.a
            BY <4>3
          <6>2. evaluator.next + 1 \in 1 .. Len(evaluator.truth) + 1
            BY <1>0, <1>t, <3>4, <4>4, SMTT(20)
          <6>3. Len(more) = evaluator.next + 1 - 1
            BY <1>0, <1>t, <4>2, <4>4
          <6> QED BY <4>4, <6>1, <6>2, <6>3
        <5> QED BY <4>3, <5>1 DEF EveryImageIsRun
      <4> QED BY <3>4, <4>3, <4>5 DEF Working
    <3>5. \/ evaluator.at = "A" /\ evaluator.next > Len(evaluator.truth)
          \/ evaluator.at = "A" /\ ~ (evaluator.next > Len(evaluator.truth))
          \/ evaluator.at = "B" /\ evaluator.next > Len(evaluator.truth)
          \/ evaluator.at = "B" /\ ~ (evaluator.next > Len(evaluator.truth))
      BY <2>1
    <3> QED BY <3>1, <3>2, <3>3, <3>4, <3>5
  <2>3. progress' \in [run : Nat, status : {"absent", "loading", "running", "computing", "complete", "error"}]
    <3>1. progress'.status \in {"running", "computing"} /\ evaluator.run \in Nat
          /\ progress' = [run |-> evaluator.run, status |-> progress'.status]
      BY <1>0, <2>1
    <3> HIDE DEF EvaluationInv, E
    <3> QED BY <3>1
  <2>4. EvaluatorTyped'
    BY <2>1, <2>2, <2>3 DEF EvaluatorTyped
  <2>5. evalImages' \subseteq evalImages /\ progress'.status \notin {"complete", "error"}
    BY <2>1
  <2> QED BY <2>1, <2>2, <2>4, <2>5, ARunGoesOn
<1>8. CASE ModelFails
  <2>1. PublishError /\ Working /\ UNCHANGED <<evalPage, runs, evalQueue, evalImages>>
    BY <1>8 DEF ModelFails, Working
  <2> QED BY <2>1, FailureIsToldInTurn
<1>9. CASE CompleteEvaluation
  <2>0. evaluator.at \in {"computing", "resulted"} /\ UNCHANGED <<evalPage, runs, evalQueue, evalImages>>
    BY <1>9 DEF CompleteEvaluation
  <2>1. CASE evaluator.at = "computing"
    <3>1. /\ result' = [run |-> evaluator.run, status |-> "complete"]
          /\ evaluator' = [evaluator EXCEPT !.at = "resulted"] /\ UNCHANGED progress
      BY <1>9, <2>1 DEF CompleteEvaluation, WriteResult
    <3>2. /\ EvaluatorTyped' /\ evaluator'.at = "resulted" /\ evaluator'.run = evaluator.run
          /\ evaluator'.truth = evaluator.truth /\ evaluator'.a = evaluator.a /\ evaluator'.b = evaluator.b
      BY <1>0, <2>0, <3>1 DEF EvaluatorTyped
    <3>3. EveryImageIsRun'
      BY <2>1, <3>2 DEF EveryImageIsRun
    <3>4. evaluator.run >= result.run /\ evaluator.run <= runs /\ result'.run = evaluator.run
      BY <2>1, <3>1 DEF ResultsInTurn, Working, RequestsInTurn
    <3>5. RequestsInTurn'
      BY <1>0, <1>q, <2>0, <3>2, <3>4 DEF RequestsInTurn
    <3>6. ResultsInTurn'
      BY <1>0, <3>1, <3>2, <3>4 DEF ResultsInTurn
    <3>7. EvalPagesTyped'
      BY <2>0 DEF EvalPagesTyped, Started
    <3>8. ToldFirst'
      <4>1. \A p \in EvalPages : evalPage[p].told \in Nat
        BY DEF EvalPagesTyped
      <4> QED BY <1>0, <2>0, <3>4, <4>1 DEF ToldFirst
    <3> QED BY <3>2, <3>3, <3>5, <3>6, <3>7, <3>8
  <2>2. CASE evaluator.at = "resulted"
    <3>1. /\ progress' = [run |-> evaluator.run, status |-> "complete"]
          /\ evaluator' = [at |-> "listening", run |-> 0, truth |-> <<>>, next |-> 1, a |-> <<>>, b |-> <<>>]
          /\ UNCHANGED result
      BY <1>9, <2>2 DEF CompleteEvaluation, WriteResult, Asleep
    <3>2. EvaluatorTyped'
      BY <1>0, <2>0, <3>1 DEF EvaluatorTyped
    <3>3. EveryImageIsRun'
      BY <3>1 DEF EveryImageIsRun
    <3>4. evaluator.run = result.run
      BY <2>2 DEF ResultsInTurn
    <3>5. RequestsInTurn'
      BY <1>0, <1>q, <2>0, <3>1 DEF RequestsInTurn
    <3>6. ResultsInTurn'
      BY <1>0, <3>1, <3>4 DEF ResultsInTurn, Working
    <3>7. EvalPagesTyped' /\ ToldFirst'
      BY <2>0, <3>1 DEF EvalPagesTyped, Started, ToldFirst
    <3> QED BY <3>2, <3>3, <3>5, <3>6, <3>7
  <2> QED BY <2>0, <2>1, <2>2
<1>10. CASE ProgressExpires
  <2>1. progress' = [run |-> 0, status |-> "absent"] /\ UNCHANGED <<evalPage, runs, evalQueue, evaluator, evalImages, result>>
    BY <1>10 DEF ProgressExpires, Absent
  <2>2. EvaluatorTyped' /\ EveryImageIsRun' /\ evaluator'.run = evaluator.run /\ (Working' => Working)
        /\ evalImages' \subseteq evalImages /\ progress'.status \notin {"complete", "error"}
        /\ (evaluator'.at = "resulted" => evaluator.at = "resulted")
    BY <2>1 DEF EvaluatorTyped, EveryImageIsRun, Working
  <2> QED BY <2>1, <2>2, ARunGoesOn
<1>11. CASE SnapshotPruned
  <2>1. evalImages' \subseteq evalImages /\ UNCHANGED <<evalPage, runs, evalQueue, evaluator, progress, result>>
    BY <1>11 DEF SnapshotPruned
  <2>2. EvaluatorTyped' /\ EveryImageIsRun' /\ evaluator'.run = evaluator.run /\ (Working' => Working)
        /\ (evaluator'.at = "resulted" => evaluator.at = "resulted")
    BY <2>1 DEF EvaluatorTyped, EveryImageIsRun, Working
  <2> QED BY <2>1, <2>2, ARunGoesOn
<1>12. CASE UNCHANGED evalVars
  BY <1>12 DEF evalVars, EvalPagesTyped, Started, EvaluatorTyped, RequestsInTurn, ResultsInTurn, ToldFirst,
               EveryImageIsRun, Working
<1> QED
  BY <1>1, <1>2, <1>3, <1>4, <1>5, <1>7, <1>8, <1>9, <1>10, <1>11, <1>12 DEF EvaluationNext

LEMMA EvaluationInvSuffices == EvaluationInv => EvaluationHolds
<1> SUFFICES ASSUME EvaluationInv PROVE EvaluationHolds
  OBVIOUS
<1> USE DEF EvaluationInv
<1>0. runs \in Nat /\ runs <= Cardinality(EvalPages) /\ Cardinality(EvalPages) \in Nat
  BY RunsAreNaturals, EvaluationAssumption, FS_CardinalityType DEF EvalPagesTyped
<1>1. EvaluationTypeOK
  <2>1. \A p \in EvalPages : evalPage[p].run \in Nat /\ evalPage[p].run <= runs
                             /\ evalPage[p].at \in {"idle", "posted", "streaming", "shown", "gaveUp"}
    BY DEF EvalPagesTyped
  <2>2. \A p \in EvalPages : evalPage[p].run \in 0 .. Cardinality(EvalPages)
    BY <1>0, <2>1
  <2> QED BY <1>0, <2>1, <2>2 DEF EvaluationTypeOK, EvaluatorTyped
<1>2. ModelsAreJudgedAlike
  <2> SUFFICES ASSUME evaluator.at \in {"computing", "resulted"}, NEW c \in ClassesSeen
               PROVE  LET examples == Cardinality({k \in DOMAIN evaluator.truth : GroundTruth[evaluator.truth[k]] = c})
                          a == Metrics(evaluator.truth, evaluator.a, c)
                          b == Metrics(evaluator.truth, evaluator.b, c)
                      IN  /\ a.tp + a.fn = examples /\ b.tp + b.fn = examples
                          /\ a.tp + a.fp = Found(evaluator.a, c) /\ b.tp + b.fp = Found(evaluator.b, c)
    BY DEF ModelsAreJudgedAlike
  <2>1. /\ evaluator.truth \in Seq(Snapshots) /\ evaluator.a \in Seq(Seq(Boxes)) /\ evaluator.b \in Seq(Seq(Boxes))
        /\ Len(evaluator.a) = Len(evaluator.truth) /\ Len(evaluator.b) = Len(evaluator.truth)
    BY DEF EvaluatorTyped, EveryImageIsRun
  <2> DEFINE examples == Cardinality({k \in DOMAIN evaluator.truth : GroundTruth[evaluator.truth[k]] = c})
  <2>2. /\ Metrics(evaluator.truth, evaluator.a, c).tp + Metrics(evaluator.truth, evaluator.a, c).fn = examples
        /\ Metrics(evaluator.truth, evaluator.a, c).tp + Metrics(evaluator.truth, evaluator.a, c).fp = Found(evaluator.a, c)
    BY <2>1, JudgedByAll
  <2>3. /\ Metrics(evaluator.truth, evaluator.b, c).tp + Metrics(evaluator.truth, evaluator.b, c).fn = examples
        /\ Metrics(evaluator.truth, evaluator.b, c).tp + Metrics(evaluator.truth, evaluator.b, c).fp = Found(evaluator.b, c)
    BY <2>1, JudgedByAll
  <2> QED BY <2>2, <2>3
<1>3. ToldResultIsThere
  BY DEF ToldResultIsThere, ToldFirst, EvalPagesTyped
<1> QED BY <1>1, <1>2, <1>3 DEF EvaluationHolds

\* Whatever is deleted while an evaluation runs, two models are judged by the same snapshots, and a page
\* that is told of an end finds the result of it.  For any pages, snapshots and predictions.
THEOREM EvaluationIsFair == EvaluationSpec => []EvaluationHolds
<1>1. EvaluationInv /\ [EvaluationNext]_evalVars => EvaluationInv'
  BY EvaluationStep
<1> QED BY <1>1, EvaluationStart, EvaluationInvSuffices, PTL DEF EvaluationSpec

-----------------------------------------------------------------------------
\* Together: an alert goes where the files say, whatever is saved and taken over in pieces meanwhile;
\* a day's digest goes out once, and says what the rows say.
THEOREM MessagesAreRight == RoutingSpec /\ DigestSpec /\ ReportSpec => []MessagesHold
<1>1. RoutingHolds /\ DigestHolds /\ ReportHolds => MessagesHold
  BY DEF MessagesHold, DigestsHold
<1> QED BY <1>1, AlertsGoWhereMeant, DigestIsSentOnce, ReportIsTrue, PTL

\* Together: neither a cache nor a page is behind a model's file but for a model loaded before, and
\* two models are judged by the same snapshots, their result there for the page that is told so.
THEOREM ModelPagesAreTrue == ClassesSpec /\ EvaluationSpec => []ModelsHold
<1>1. ClassesHold /\ EvaluationHolds => ModelsHold
  BY DEF ModelsHold
<1> QED BY <1>1, ClassesAreOfTheFile, EvaluationIsFair, PTL
=============================================================================

--------------------------- MODULE DoorbellDevices ---------------------------
(***************************************************************************)
(* Paired doorbells and the watchdog over them: pairing window, register,   *)
(* removal, heartbeat and press of services/web/src/routes/doorbell.py on  *)
(* the device_tokens table of auth.py, and the thread of                   *)
(* heartbeat_watchdog.py, which publishes to openring:device.              *)
(*                                                                         *)
(* A request is checked before its body is read and acts after, so other   *)
(* steps come between.  The watchdog reads the table once per pass and     *)
(* then goes through what it read, publishing as it goes.                  *)
(***************************************************************************)
EXTENDS Naturals, FiniteSets

CONSTANTS
    Devices,     \* device ids
    TimeoutOf,   \* TimeoutOf[d]: heartbeat timeout of d, in ticks
    WindowTicks, \* length of the pairing window
    MaxPairings, \* bound: tokens ever issued
    MaxDeviceFaults    \* bound: lost publishes and restarts of the web service

ASSUME DevicesAssumption ==
    /\ TimeoutOf \in [Devices -> Nat]
    /\ WindowTicks \in Nat \ {0} /\ MaxPairings \in Nat /\ MaxDeviceFaults \in Nat

VARIABLES
    pairedDevices,      \* devices with a row in device_tokens
    token,       \* token[d]: the token of the row, 0 if there never was one
    seen,        \* devices whose last_seen_at is not NULL
    silent,      \* silent[d]: ticks since a request of d was stamped, up to the timeout plus one
    pi,          \* pi[d]: the token in the secrets.env of the Pi
    pairingWindow,      \* ticks left of the pairing window
    registering, \* devices whose register request has passed the window check
    inFlight,    \* inFlight[d]: the request of d whose token was accepted
    state,       \* state[d]: what the watchdog has on record for d
    todo,        \* devices the current pass has still to look at
    silenced,    \* devices the current pass has read as offline
    told,        \* told[d]: the last event about d that was delivered
    gap,         \* devices whose record and told may differ: a lost publish, a restart
    issued,      \* tokens issued
    deviceFaults

device == <<pairedDevices, token, seen, silent, pi, pairingWindow, registering, inFlight, issued>>
watch == <<state, todo, silenced, told, gap>>
devicesVars == <<pairedDevices, token, seen, silent, pi, pairingWindow, registering, inFlight, issued,
          state, todo, silenced, told, gap, deviceFaults>>

DevicesTypeOK ==
    /\ pairedDevices \subseteq Devices /\ seen \subseteq pairedDevices
    /\ token \in [Devices -> 0 .. MaxPairings] /\ pi \in [Devices -> 0 .. MaxPairings]
    /\ silent \in [Devices -> Nat] /\ \A d \in Devices : silent[d] <= TimeoutOf[d] + 1
    /\ pairingWindow \in 0 .. WindowTicks
    /\ registering \subseteq Devices
    /\ inFlight \in [Devices -> {"none", "heartbeat", "press"}]
    /\ state \in [Devices -> {"unknown", "online", "offline"}]
    /\ silenced \subseteq todo /\ todo \subseteq Devices
    /\ told \in [Devices -> {"nothing", "offline", "recovered"}]
    /\ gap \subseteq Devices
    /\ issued \in 0 .. MaxPairings /\ deviceFaults \in 0 .. MaxDeviceFaults

DevicesInit ==
    /\ pairedDevices = {} /\ seen = {}
    /\ token = [d \in Devices |-> 0] /\ pi = token
    /\ silent = [d \in Devices |-> TimeoutOf[d] + 1]
    /\ pairingWindow = 0 /\ registering = {}
    /\ inFlight = [d \in Devices |-> "none"]
    /\ state = [d \in Devices |-> "unknown"]
    /\ todo = {} /\ silenced = {}
    /\ told = [d \in Devices |-> "nothing"]
    /\ gap = {}
    /\ issued = 0 /\ deviceFaults = 0

-----------------------------------------------------------------------------
\* pair_window_open
OpenWindow ==
    /\ pairingWindow' = WindowTicks
    /\ UNCHANGED <<pairedDevices, token, seen, silent, pi, registering, inFlight, issued, watch, deviceFaults>>

\* pair_window_close
CloseWindow ==
    /\ pairingWindow > 0
    /\ pairingWindow' = 0
    /\ UNCHANGED <<pairedDevices, token, seen, silent, pi, registering, inFlight, issued, watch, deviceFaults>>

\* register: the window is checked, then the body is awaited ...
Register(d) ==
    /\ pairingWindow > 0
    /\ registering' = registering \cup {d}
    /\ UNCHANGED <<pairedDevices, token, seen, silent, pi, pairingWindow, inFlight, issued, watch, deviceFaults>>

\* ... and create_device_token makes the row or gives it a new token and no
\* last_seen_at.
CreateDeviceToken(d) ==
    /\ d \in registering
    /\ issued < MaxPairings
    /\ issued' = issued + 1
    /\ token' = [token EXCEPT ![d] = issued + 1]
    /\ pairedDevices' = pairedDevices \cup {d}
    /\ seen' = seen \ {d}
    /\ registering' = registering \ {d}
    /\ UNCHANGED <<silent, pi, pairingWindow, inFlight, watch, deviceFaults>>

\* The operator copies the token to the Pi.
CopyToken(d) ==
    /\ d \in pairedDevices /\ pi[d] # token[d]
    /\ pi' = [pi EXCEPT ![d] = token[d]]
    /\ UNCHANGED <<pairedDevices, token, seen, silent, pairingWindow, registering, inFlight, issued, watch, deviceFaults>>

\* Mutant: the last_seen_at of a deleted device stays behind.
DeleteDeviceKeepsSeen(d) ==
    /\ d \in pairedDevices
    /\ pairedDevices' = pairedDevices \ {d}
    /\ UNCHANGED <<token, seen, silent, pi, pairingWindow, registering, inFlight, issued, watch, deviceFaults>>

\* remove_device
DeleteDevice(d) ==
    /\ d \in pairedDevices
    /\ pairedDevices' = pairedDevices \ {d}
    /\ seen' = seen \ {d}
    /\ UNCHANGED <<token, silent, pi, pairingWindow, registering, inFlight, issued, watch, deviceFaults>>

\* heartbeat and press: the token is looked up, then the body is awaited ...
Arrive(d, kind) ==
    /\ inFlight[d] = "none"
    /\ d \in pairedDevices /\ pi[d] = token[d]
    /\ inFlight' = [inFlight EXCEPT ![d] = kind]
    /\ UNCHANGED <<pairedDevices, token, seen, silent, pi, pairingWindow, registering, issued, watch, deviceFaults>>

\* ... and touch_device stamps the row of that id, if there is one.
Touch(d) ==
    /\ inFlight[d] # "none"
    /\ inFlight' = [inFlight EXCEPT ![d] = "none"]
    /\ \/ /\ d \in pairedDevices
          /\ seen' = seen \cup {d}
          /\ silent' = [silent EXCEPT ![d] = 0]
       \/ d \notin pairedDevices /\ UNCHANGED <<seen, silent>>
    /\ UNCHANGED <<pairedDevices, token, pi, pairingWindow, registering, issued, watch, deviceFaults>>

\* ... or the request ends without acting: a body that is no JSON object, a
\* client that went away.
PassOver(d) ==
    /\ \/ /\ inFlight[d] # "none"
          /\ inFlight' = [inFlight EXCEPT ![d] = "none"]
          /\ UNCHANGED registering
       \/ /\ d \in registering
          /\ registering' = registering \ {d}
          /\ UNCHANGED inFlight
    /\ UNCHANGED <<pairedDevices, token, seen, silent, pi, pairingWindow, issued, watch, deviceFaults>>

DevicesTick ==
    /\ silent' = [d \in Devices |-> IF silent[d] <= TimeoutOf[d] THEN silent[d] + 1 ELSE silent[d]]
    /\ pairingWindow' = IF pairingWindow > 0 THEN pairingWindow - 1 ELSE 0
    /\ <<silent', pairingWindow'>> # <<silent, pairingWindow>>
    /\ UNCHANGED <<pairedDevices, token, seen, pi, registering, inFlight, issued, watch, deviceFaults>>

-----------------------------------------------------------------------------
IsOffline(d) == d \notin seen \/ silent[d] > TimeoutOf[d]

\* Mutant: a device that has ever been seen counts as online.
BeginPassWithoutTimeout ==
    /\ todo = {}
    /\ todo' = pairedDevices
    /\ silenced' = pairedDevices \ seen
    /\ UNCHANGED <<device, state, told, gap, deviceFaults>>

\* A pass begins: list_devices.
BeginPass ==
    /\ todo = {}
    /\ todo' = pairedDevices
    /\ silenced' = {d \in pairedDevices : IsOffline(d)}
    /\ UNCHANGED <<device, state, told, gap, deviceFaults>>

NewState(d) == IF d \in silenced THEN "offline" ELSE "online"

LookedAt(d) ==
    /\ d \in todo
    /\ todo' = todo \ {d}
    /\ silenced' = silenced \ {d}

\* A device the watchdog does not know: recorded, not published.
Bootstrap(d) ==
    /\ LookedAt(d)
    /\ state[d] = "unknown"
    /\ state' = [state EXCEPT ![d] = NewState(d)]
    /\ UNCHANGED <<device, told, gap, deviceFaults>>

NoTransition(d) ==
    /\ LookedAt(d)
    /\ state[d] = NewState(d)
    /\ UNCHANGED <<device, state, told, gap, deviceFaults>>

\* Mutant: the record is not updated after a publish.
TransitionForgotten(d) ==
    /\ LookedAt(d)
    /\ state[d] \notin {"unknown", NewState(d)}
    /\ told' = [told EXCEPT ![d] = IF d \in silenced THEN "offline" ELSE "recovered"]
    /\ gap' = gap \ {d}
    /\ UNCHANGED <<device, state, deviceFaults>>

\* A transition is published and recorded.
Transition(d) ==
    /\ LookedAt(d)
    /\ state[d] \notin {"unknown", NewState(d)}
    /\ state' = [state EXCEPT ![d] = NewState(d)]
    /\ told' = [told EXCEPT ![d] = IF d \in silenced THEN "offline" ELSE "recovered"]
    /\ gap' = gap \ {d}
    /\ UNCHANGED <<device, deviceFaults>>

\* The publish fails, which _publish swallows, or nobody is subscribed.
LostTransition(d) ==
    /\ deviceFaults < MaxDeviceFaults
    /\ deviceFaults' = deviceFaults + 1
    /\ LookedAt(d)
    /\ state[d] \notin {"unknown", NewState(d)}
    /\ state' = [state EXCEPT ![d] = NewState(d)]
    /\ gap' = gap \cup {d}
    /\ UNCHANGED <<device, told>>

\* The web service is restarted: the watchdog's record is in memory only.
WatchdogRestart ==
    /\ deviceFaults < MaxDeviceFaults
    /\ deviceFaults' = deviceFaults + 1
    /\ state' = [d \in Devices |-> "unknown"]
    /\ todo' = {} /\ silenced' = {}
    /\ gap' = Devices
    /\ registering' = {}
    /\ inFlight' = [d \in Devices |-> "none"]
    /\ UNCHANGED <<pairedDevices, token, seen, silent, pi, pairingWindow, issued, told>>

Watch ==
    \/ BeginPass
    \/ \E d \in Devices : Bootstrap(d) \/ NoTransition(d) \/ Transition(d) \/ LostTransition(d)

PairDevice(d) == Register(d) \/ CreateDeviceToken(d) \/ CopyToken(d) \/ DeleteDevice(d)

DevicesNext ==
    \/ OpenWindow \/ CloseWindow \/ DevicesTick \/ WatchdogRestart
    \/ Watch
    \/ \E d \in Devices :
          PairDevice(d) \/ Touch(d) \/ PassOver(d) \/ \E kind \in {"heartbeat", "press"} : Arrive(d, kind)

DevicesSpec == DevicesInit /\ [][DevicesNext]_devicesVars

\* The watchdog's thread keeps polling; no device has to send anything.
DevicesFairSpec == DevicesSpec /\ WF_devicesVars(Watch)

-----------------------------------------------------------------------------
\* Unless something was lost or restarted, what the subscriber was told last
\* is what the watchdog has on record.
RecordIsWhatWasTold ==
    \A d \in Devices \ gap :
        /\ told[d] = "offline" => state[d] = "offline"
        /\ told[d] = "recovered" => state[d] = "online"

\* A device that was on record as online and stays silent is put on record as
\* offline, whatever the other devices and pairings do meanwhile.
SilenceIsNoticed ==
    \A d \in Devices : []<>~(state[d] = "online" /\ d \in pairedDevices /\ IsOffline(d))

-----------------------------------------------------------------------------
\* heartbeat_watchdog.py:17-21: after a restart "any actually-offline device
\* will fire one device_offline event shortly after".
OfflineIsReportedAfterRestart ==
    \A d \in Devices :
        d \in gap /\ state[d] = "unknown" /\ d \in pairedDevices /\ d \in seen /\ IsOffline(d)
          ~> told[d] = "offline" \/ d \notin pairedDevices \/ ~IsOffline(d)

\* Pairings, removals and requests in hand while a pass of the watchdog goes
\* through the table it has read leave no event that its record contradicts.
DevicesHold == DevicesTypeOK /\ RecordIsWhatWasTold
=============================================================================

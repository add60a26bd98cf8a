---------------------------- MODULE DeterrentPage ----------------------------
(***************************************************************************)
(* The deterrent section of openring.yml as save_deterrent of              *)
(* routes/deterrent.py merges a page's request into it: the credentials,   *)
(* the devices, and the groups that name them.  Several pages may be open, *)
(* and the dp_code of a device, which no page shows, is set by hand.       *)
(***************************************************************************)
EXTENDS FiniteSets, TLC

CONSTANTS
    Pages,        \* pages open at a time
    Devices,      \* device ids
    DeviceNames,  \* names a device may have
    Groups        \* groups

VARIABLES
    devices,  \* the device list: a name for an id, NoName for none
    dpCodes,  \* devices with a dp_code
    groups,   \* the names each group lists
    tuya,     \* the credentials the file has a value for
    pages     \* what each page shows

deterrentVars == <<devices, dpCodes, groups, tuya, pages>>

Credentials == {"api_key", "api_secret"}

NoName == "no name"

ASSUME DeterrentAssumption == NoName \notin DeviceNames

Registered(devs) == {devs[d] : d \in Devices} \ {NoName}
Closed == [open |-> FALSE, devices |-> [d \in Devices |-> NoName], groups |-> [g \in Groups |-> {}]]

DeterrentTypeOK ==
    /\ devices \in [Devices -> DeviceNames \cup {NoName}]
    /\ dpCodes \subseteq Devices
    /\ groups \in [Groups -> SUBSET DeviceNames]
    /\ tuya \subseteq Credentials

DeterrentInit ==
    /\ devices = [d \in Devices |-> NoName] /\ dpCodes = {}
    /\ groups = [g \in Groups |-> {}] /\ tuya \in {{}, Credentials}
    /\ pages = [p \in Pages |-> Closed]

\* deterrent_page shows the section.
OpenPage(p) ==
    /\ ~pages[p].open
    /\ pages' = [pages EXCEPT ![p] = [open |-> TRUE, devices |-> devices, groups |-> groups]]
    /\ UNCHANGED <<devices, dpCodes, groups, tuya>>

\* The operator adds, renames or removes a device, or a device's name in a group;
\* a name appears once in the list.
EditDevice(p, d, name) ==
    /\ pages[p].open
    /\ name = NoName \/ \A e \in Devices : pages[p].devices[e] # name
    /\ pages' = [pages EXCEPT ![p].devices[d] = name]
    /\ UNCHANGED <<devices, dpCodes, groups, tuya>>
EditGroup(p, g, name) ==
    /\ pages[p].open /\ name \in Registered(pages[p].devices)
    /\ pages' = [pages EXCEPT ![p].groups[g] =
                     IF name \in @ THEN @ \ {name} ELSE @ \cup {name}]
    /\ UNCHANGED <<devices, dpCodes, groups, tuya>>

\* Mutant: the names are those registered before the request.
KnownNamesBefore(sent) == Registered(devices)

\* What a group may name: the devices of this very request.
KnownNames(sent) == Registered(sent)

\* A device keeps its dp_code by its id, whatever its name.
CarriedCodes(sent) == {d \in dpCodes : sent[d] # NoName}

\* Mutant: the fields are kept one by one.
CredentialsOneByOne(typed) == tuya \cup typed

\* A field left empty, or masked, keeps its value; a pair that is not whole then is
\* not written.
SavedCredentials(typed) ==
    IF tuya \cup typed \in {{}, Credentials} THEN tuya \cup typed ELSE tuya

\* save_deterrent; defaults and battery_monitor are merged key by key.
SaveDeterrent(p, typed) ==
    LET sent == pages[p].devices IN
    /\ pages[p].open
    /\ devices' = sent
    /\ dpCodes' = CarriedCodes(sent)
    /\ tuya' = SavedCredentials(typed)
    /\ groups' = [g \in Groups |-> pages[p].groups[g] \cap KnownNames(sent)]
    /\ pages' = [pages EXCEPT ![p] = Closed]

\* Someone gives a device a dp_code in the file.
SetDpCode(d) ==
    /\ devices[d] # NoName /\ d \notin dpCodes
    /\ dpCodes' = dpCodes \cup {d}
    /\ UNCHANGED <<devices, groups, tuya, pages>>

DeterrentNext ==
    \/ \E p \in Pages :
          \/ OpenPage(p)
          \/ \E typed \in SUBSET Credentials : SaveDeterrent(p, typed)
          \/ \E d \in Devices, n \in DeviceNames \cup {NoName} : EditDevice(p, d, n)
          \/ \E g \in Groups, n \in DeviceNames : EditGroup(p, g, n)
    \/ \E d \in Devices : SetDpCode(d)

DeterrentSpec == DeterrentInit /\ [][DeterrentNext]_deterrentVars

-----------------------------------------------------------------------------
\* A deleted or renamed device leaves no group that names it, whichever of two
\* pages is saved last; a code is never left for a device that is gone; and the
\* credentials are there both or neither, or the deterrent service would not start.
GroupsResolve ==
    /\ \A g \in Groups : groups[g] \subseteq Registered(devices)
    /\ \A d \in dpCodes : devices[d] # NoName
    /\ tuya \in {{}, Credentials}

\* What the page of the deterrent leaves in the file can be switched.
DeterrentHolds == DeterrentTypeOK /\ GroupsResolve
=============================================================================

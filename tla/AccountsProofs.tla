--------------------------- MODULE AccountsProofs ---------------------------
(***************************************************************************)
(* Proofs about Accounts for every set of requests and every bound: types, *)
(* the last admin stays, /setup makes at most one account, credentials     *)
(* have owners, and with auth always on an instance with users has an      *)
(* admin.                                                                  *)
(***************************************************************************)
EXTENDS Accounts, FiniteSetTheorems, TLAPS

\* What a step can do to the table of users.
UsersStep ==
    \/ UNCHANGED <<users, lastUser>>
    \/ \E role \in Roles : AddUser(role)
    \/ \E id \in DOMAIN users, role \in Roles : TryDemoteAdmin(id, role) /\ lastUser' = lastUser
    \/ \E id \in DOMAIN users :
          TryDisableAdmin(id, ~users[id].disabled) /\ lastUser' = lastUser
    \/ \E id \in DOMAIN users : TryDeleteAdmin(id) /\ lastUser' = lastUser

LEMMA NextUsersStep == AccountsAssumption /\ [Next]_vars => UsersStep
<1> SUFFICES ASSUME AccountsAssumption, [Next]_vars PROVE UsersStep
  OBVIOUS
<1> USE DEF UsersStep
<1>1. ASSUME NEW r \in Requests, Administer(r) PROVE UsersStep
  <2>1. ASSUME NEW role \in Roles, CreateUser(r, role) PROVE UsersStep
    BY <2>1 DEF CreateUser
  <2>2. ASSUME NEW id \in DOMAIN users, NEW role \in Roles, ChangeRole(r, id, role)
        PROVE  UsersStep
    BY <2>2 DEF ChangeRole
  <2>3. ASSUME NEW id \in DOMAIN users, ToggleDisable(r, id) PROVE UsersStep
    BY <2>3 DEF ToggleDisable
  <2>4. ASSUME NEW id \in DOMAIN users, DeleteUser(r, id) PROVE UsersStep
    BY <2>4 DEF DeleteUser
  <2>5. ASSUME CreateApiToken(r) PROVE UsersStep
    BY <2>5 DEF CreateApiToken
  <2>6. ASSUME NEW c \in creds, RevokeApiToken(r, c) PROVE UsersStep
    BY <2>6 DEF RevokeApiToken
  <2> QED BY <1>1, <2>1, <2>2, <2>3, <2>4, <2>5, <2>6 DEF Administer
<1>2. ASSUME NEW r \in Requests,
             GateAnonymous(r) \/ Logout(r) \/ Answer(r) \/ \E c \in creds : Gate(r, c)
      PROVE  UsersStep
  BY <1>2 DEF GateAnonymous, Logout, Answer, Gate
<1>3. ASSUME \/ \E id \in DOMAIN users : Login(id)
             \/ \E c \in creds : SessionExpires(c)
      PROVE  UsersStep
  BY <1>3 DEF Login, SessionExpires
<1>4. ASSUME Startup \/ WriteBootstrap \/ Crash \/ \E on \in AuthSettings : SetAuth(on)
      PROVE  UsersStep
  BY <1>4 DEF Startup, WriteBootstrap, Crash, SetAuth
<1>5. ASSUME Setup \/ CliCreateAdmin PROVE UsersStep
  BY <1>5 DEF AccountsAssumption, Setup, SetupCheck, SetupCreate, SetupSession,
              ConsumeBootstrap, CliCreateAdmin
<1>6. ASSUME UNCHANGED vars PROVE UsersStep
  BY <1>6 DEF vars
<1> QED BY <1>1, <1>2, <1>3, <1>4, <1>5, <1>6 DEF Next

-----------------------------------------------------------------------------
\* A set with more than one element has one beside x.
LEMMA AnotherElement ==
    ASSUME NEW S, IsFiniteSet(S), Cardinality(S) > 1, NEW x
    PROVE  S \ {x} # {}
<1> SUFFICES ASSUME S \subseteq {x} PROVE FALSE
  OBVIOUS
<1>1. Cardinality(S) <= 1
  <2>1. IsFiniteSet({x}) /\ Cardinality({x}) = 1
    BY FS_Singleton
  <2>2. S \in SUBSET {x}
    OBVIOUS
  <2>3. Cardinality(S) <= Cardinality({x})
    BY <2>1, <2>2, FS_Subset
  <2> QED BY <2>1, <2>3
<1>2. Cardinality(S) \in Nat
  BY FS_CardinalityType
<1> QED BY <1>1, <1>2

LEMMA AdminsFinite == TypeOK => IsFiniteSet(ActiveAdmins)
<1> SUFFICES ASSUME TypeOK PROVE IsFiniteSet(ActiveAdmins)
  OBVIOUS
<1>0. lastUser \in Int /\ 1 \in Int
  BY DEF TypeOK
<1>1. IsFiniteSet(1 .. lastUser)
  BY <1>0, FS_Interval
<1>2. ActiveAdmins \in SUBSET (1 .. lastUser)
  BY DEF ActiveAdmins, TypeOK
<1> QED BY <1>1, <1>2, FS_Subset

\* Whoever the guard lets go, an active admin stays behind.
LEMMA GuardLeavesAdmin ==
    ASSUME TypeOK, NEW id, NotTheLastAdmin(id), ActiveAdmins # {}
    PROVE  ActiveAdmins \ {id} # {}
<1>1. CASE users[id].role # "admin"
  BY <1>1 DEF ActiveAdmins
<1>2. CASE Cardinality(ActiveAdmins) > 1
  BY <1>2, AdminsFinite, AnotherElement
<1> QED BY <1>1, <1>2 DEF NotTheLastAdmin

\* The heart of the matter: no step takes the last active admin away.
LEMMA AdminStaysStep ==
    TypeOK /\ UsersStep /\ ActiveAdmins # {} => ActiveAdmins' # {}
<1> SUFFICES ASSUME TypeOK, UsersStep, ActiveAdmins # {} PROVE ActiveAdmins' # {}
  OBVIOUS
<1>1. CASE UNCHANGED <<users, lastUser>>
  BY <1>1 DEF ActiveAdmins
<1>2. ASSUME NEW role \in Roles, AddUser(role) PROVE ActiveAdmins' # {}
  <2>1. PICK a \in ActiveAdmins : TRUE
    OBVIOUS
  <2>2. a \in DOMAIN users' /\ users'[a] = users[a]
    BY <1>2, <2>1 DEF AddUser, ActiveAdmins, TypeOK
  <2> QED BY <2>1, <2>2 DEF ActiveAdmins
<1>3. ASSUME NEW id \in DOMAIN users, NEW role \in Roles, TryDemoteAdmin(id, role)
      PROVE  ActiveAdmins' # {}
  <2>1. DOMAIN users' = DOMAIN users
    BY <1>3 DEF TryDemoteAdmin, SetRole
  <2>2. CASE role = "admin"
    <3>1. \A x \in DOMAIN users :
             users'[x].disabled = users[x].disabled
             /\ (users[x].role = "admin" => users'[x].role = "admin")
      BY <1>3, <2>2 DEF TryDemoteAdmin, SetRole, TypeOK, User
    <3> QED BY <2>1, <3>1 DEF ActiveAdmins
  <2>3. CASE NotTheLastAdmin(id)
    <3>1. PICK a \in ActiveAdmins : a # id
      BY <2>3, GuardLeavesAdmin
    <3>2. users'[a] = users[a]
      BY <1>3, <3>1 DEF TryDemoteAdmin, SetRole, TypeOK, ActiveAdmins
    <3> QED BY <2>1, <3>1, <3>2 DEF ActiveAdmins
  <2> QED BY <1>3, <2>2, <2>3 DEF TryDemoteAdmin
<1>4. ASSUME NEW id \in DOMAIN users, TryDisableAdmin(id, ~users[id].disabled)
      PROVE  ActiveAdmins' # {}
  <2>1. DOMAIN users' = DOMAIN users /\ \A x \in DOMAIN users : x # id => users'[x] = users[x]
    BY <1>4 DEF TryDisableAdmin, TypeOK
  <2>2. CASE users[id].disabled
    <3>1. PICK a \in ActiveAdmins : TRUE
      OBVIOUS
    <3>2. a # id /\ a \in DOMAIN users
      BY <2>2, <3>1 DEF ActiveAdmins
    <3> QED BY <2>1, <3>1, <3>2 DEF ActiveAdmins
  <2>3. CASE ~users[id].disabled
    <3>1. NotTheLastAdmin(id)
      BY <1>4, <2>3 DEF TryDisableAdmin
    <3>2. PICK a \in ActiveAdmins : a # id
      BY <3>1, GuardLeavesAdmin
    <3> QED BY <2>1, <3>2 DEF ActiveAdmins
  <2> QED BY <2>2, <2>3
<1>5. ASSUME NEW id \in DOMAIN users, TryDeleteAdmin(id) PROVE ActiveAdmins' # {}
  <2>1. PICK a \in ActiveAdmins : a # id
    <3>1. CASE users[id].disabled
      BY <3>1 DEF ActiveAdmins
    <3>2. CASE NotTheLastAdmin(id)
      BY <3>2, GuardLeavesAdmin
    <3> QED BY <1>5, <3>1, <3>2 DEF TryDeleteAdmin, MayBeDeleted
  <2>2. a \in DOMAIN users' /\ users'[a] = users[a]
    BY <1>5, <2>1 DEF TryDeleteAdmin, ActiveAdmins
  <2> QED BY <2>1, <2>2 DEF ActiveAdmins
<1> QED BY <1>1, <1>2, <1>3, <1>4, <1>5 DEF UsersStep

-----------------------------------------------------------------------------
LEMMA InitTypeOK == AccountsAssumption /\ Init => TypeOK
<1> SUFFICES ASSUME AccountsAssumption, Init PROVE TypeOK
  OBVIOUS
<1>1. requests \in [Requests -> Caller]
  BY DEF Init, Nobody, Caller
<1>2. authOn \in BOOLEAN
  BY DEF Init, AccountsAssumption
<1>3. DOMAIN users = {} /\ users \in [DOMAIN users -> User]
  BY DEF Init
<1> QED BY <1>1, <1>2, <1>3 DEF Init, TypeOK

\* The table of users keeps its type.
LEMMA UsersTypeStep ==
    TypeOK /\ UsersStep
      => /\ lastUser' \in Nat
         /\ DOMAIN users' \subseteq 1 .. lastUser'
         /\ users' \in [DOMAIN users' -> User]
<1> SUFFICES ASSUME TypeOK, UsersStep
             PROVE  /\ lastUser' \in Nat
                    /\ DOMAIN users' \subseteq 1 .. lastUser'
                    /\ users' \in [DOMAIN users' -> User]
  OBVIOUS
<1>0. \A role \in Roles, disabled \in BOOLEAN : [role |-> role, disabled |-> disabled] \in User
  BY DEF User
<1>1. CASE UNCHANGED <<users, lastUser>>
  BY <1>1 DEF TypeOK
<1>2. ASSUME NEW role \in Roles, AddUser(role)
      PROVE  /\ lastUser' \in Nat
             /\ DOMAIN users' \subseteq 1 .. lastUser'
             /\ users' \in [DOMAIN users' -> User]
  <2>1. DOMAIN users' = DOMAIN users \cup {lastUser + 1} /\ lastUser' = lastUser + 1
    BY <1>2 DEF AddUser
  <2>2. \A x \in DOMAIN users' : users'[x] \in User
    BY <1>0, <1>2, <2>1 DEF AddUser, TypeOK
  <2>3. users' = [x \in DOMAIN users' |-> users'[x]]
    BY <1>2 DEF AddUser
  <2>4. users' \in [DOMAIN users' -> User]
    BY <2>2, <2>3
  <2>5. lastUser' \in Nat /\ DOMAIN users' \subseteq 1 .. lastUser'
    BY <2>1 DEF TypeOK
  <2> QED BY <2>4, <2>5
<1>3. ASSUME NEW id \in DOMAIN users, NEW role \in Roles, TryDemoteAdmin(id, role),
             lastUser' = lastUser
      PROVE  /\ lastUser' \in Nat
             /\ DOMAIN users' \subseteq 1 .. lastUser'
             /\ users' \in [DOMAIN users' -> User]
  <2>1. [users[id] EXCEPT !.role = role] \in User
    BY DEF TypeOK, User
  <2> QED BY <1>3, <2>1 DEF TryDemoteAdmin, SetRole, TypeOK
<1>4. ASSUME NEW id \in DOMAIN users, TryDisableAdmin(id, ~users[id].disabled),
             lastUser' = lastUser
      PROVE  /\ lastUser' \in Nat
             /\ DOMAIN users' \subseteq 1 .. lastUser'
             /\ users' \in [DOMAIN users' -> User]
  <2>1. [users[id] EXCEPT !.disabled = ~users[id].disabled] \in User
    BY DEF TypeOK, User
  <2> QED BY <1>4, <2>1 DEF TryDisableAdmin, TypeOK
<1>5. ASSUME NEW id \in DOMAIN users, TryDeleteAdmin(id), lastUser' = lastUser
      PROVE  /\ lastUser' \in Nat
             /\ DOMAIN users' \subseteq 1 .. lastUser'
             /\ users' \in [DOMAIN users' -> User]
  BY <1>5 DEF TryDeleteAdmin, TypeOK
<1> QED BY <1>1, <1>2, <1>3, <1>4, <1>5 DEF UsersStep

\* What a step can do to sessions and API tokens, and to the users they name.
CredsStep ==
    \/ UNCHANGED <<creds, lastCred>> /\ DOMAIN users \subseteq DOMAIN users'
    \/ /\ DOMAIN users' = DOMAIN users
       /\ \E kind \in {"session", "token"}, id \in DOMAIN users, kept \in SUBSET creds :
             AddCred(kind, id, kept)
    \/ /\ DOMAIN users' = DOMAIN users
       /\ lastCred' = lastCred
       /\ \E c \in creds : creds' = (creds \ {c}) \cup {[c EXCEPT !.valid = FALSE]}
    \/ /\ lastCred' = lastCred
       /\ creds' \subseteq creds
       /\ \A c \in creds' : c.user \in DOMAIN users => c.user \in DOMAIN users'

LEMMA NextCredsStep == [Next]_vars => CredsStep
<1> SUFFICES ASSUME [Next]_vars PROVE CredsStep
  OBVIOUS
<1> USE DEF CredsStep
<1>1. ASSUME NEW r \in Requests, Administer(r) PROVE CredsStep
  <2>1. ASSUME NEW role \in Roles, CreateUser(r, role) PROVE CredsStep
    BY <2>1 DEF CreateUser, AddUser
  <2>2. ASSUME NEW id \in DOMAIN users, NEW role \in Roles, ChangeRole(r, id, role)
        PROVE  CredsStep
    BY <2>2 DEF ChangeRole, TryDemoteAdmin, SetRole
  <2>3. ASSUME NEW id \in DOMAIN users, ToggleDisable(r, id) PROVE CredsStep
    BY <2>3 DEF ToggleDisable, TryDisableAdmin
  <2>4. ASSUME NEW id \in DOMAIN users, DeleteUser(r, id) PROVE CredsStep
    BY <2>4 DEF DeleteUser, TryDeleteAdmin
  <2>5. ASSUME CreateApiToken(r) PROVE CredsStep
    <3>1. requests[r].user \in DOMAIN users /\ users' = users
      BY <2>5 DEF CreateApiToken, AddCred
    <3>2. AddCred("token", requests[r].user, creds)
      BY <2>5 DEF CreateApiToken
    <3> QED BY <3>1, <3>2
  <2>6. ASSUME NEW c \in creds, RevokeApiToken(r, c) PROVE CredsStep
    BY <2>6 DEF RevokeApiToken
  <2> QED BY <1>1, <2>1, <2>2, <2>3, <2>4, <2>5, <2>6 DEF Administer
<1>2. ASSUME NEW r \in Requests,
             GateAnonymous(r) \/ Logout(r) \/ Answer(r) \/ \E c \in creds : Gate(r, c)
      PROVE  CredsStep
  BY <1>2 DEF GateAnonymous, Logout, Answer, Gate
<1>3. ASSUME NEW id \in DOMAIN users, Login(id) PROVE CredsStep
  <2> DEFINE kept == {c \in creds : c.kind = "session" => c.valid}
  <2>1. kept \in SUBSET creds /\ AddCred("session", id, kept) /\ users' = users
    BY <1>3 DEF Login
  <2> HIDE DEF kept
  <2> QED BY <2>1
<1>4. ASSUME NEW c \in creds, SessionExpires(c) PROVE CredsStep
  BY <1>4 DEF SessionExpires
<1>5. ASSUME Startup \/ WriteBootstrap \/ Crash \/ \E on \in AuthSettings : SetAuth(on)
      PROVE  CredsStep
  BY <1>5 DEF Startup, WriteBootstrap, Crash, SetAuth
<1>6. ASSUME SetupCheck \/ SetupCreate \/ ConsumeBootstrap \/ CliCreateAdmin PROVE CredsStep
  BY <1>6 DEF SetupCheck, SetupCreate, AddUser, ConsumeBootstrap, CliCreateAdmin
<1>7. ASSUME SetupSession PROVE CredsStep
  <2>1. lastUser \in DOMAIN users /\ users' = users
    BY <1>7 DEF SetupSession, AddCred
  <2>2. AddCred("session", lastUser, creds)
    BY <1>7 DEF SetupSession
  <2> QED BY <2>1, <2>2
<1>8. ASSUME UNCHANGED vars PROVE CredsStep
  BY <1>8 DEF vars
<1> QED BY <1>1, <1>2, <1>3, <1>4, <1>5, <1>6, <1>7, <1>8 DEF Next, Setup

LEMMA CredsTypeStep == TypeOK /\ CredsStep => lastCred' \in Nat /\ creds' \subseteq Cred
<1> SUFFICES ASSUME TypeOK, CredsStep PROVE lastCred' \in Nat /\ creds' \subseteq Cred
  OBVIOUS
<1>1. ASSUME NEW kind \in {"session", "token"}, NEW id \in DOMAIN users,
             NEW kept \in SUBSET creds, AddCred(kind, id, kept)
      PROVE  lastCred' \in Nat /\ creds' \subseteq Cred
  <2>1. id \in Nat
    BY DEF TypeOK
  <2>2. [num |-> lastCred + 1, kind |-> kind, user |-> id, valid |-> TRUE] \in Cred
    BY <2>1 DEF Cred, TypeOK
  <2>3. kept \subseteq Cred /\ lastCred + 1 \in Nat
    BY DEF TypeOK
  <2> QED BY <1>1, <2>2, <2>3 DEF AddCred
<1>2. ASSUME NEW c \in creds, creds' = (creds \ {c}) \cup {[c EXCEPT !.valid = FALSE]}
      PROVE  creds' \subseteq Cred
  <2>1. [c EXCEPT !.valid = FALSE] \in Cred
    BY DEF TypeOK, Cred
  <2> QED BY <1>2, <2>1 DEF TypeOK
<1> QED BY <1>1, <1>2 DEF CredsStep, TypeOK

\* Credentials keep their owners: deleting a user cascades.
LEMMA OwnersStep == TypeOK /\ CredentialsHaveOwners /\ CredsStep => CredentialsHaveOwners'
<1> SUFFICES ASSUME TypeOK, CredentialsHaveOwners, CredsStep PROVE CredentialsHaveOwners'
  OBVIOUS
<1>1. ASSUME NEW kind \in {"session", "token"}, NEW id \in DOMAIN users,
             NEW kept \in SUBSET creds, AddCred(kind, id, kept), DOMAIN users' = DOMAIN users
      PROVE  CredentialsHaveOwners'
  BY <1>1 DEF AddCred, CredentialsHaveOwners
<1>2. ASSUME NEW c \in creds, creds' = (creds \ {c}) \cup {[c EXCEPT !.valid = FALSE]},
             DOMAIN users' = DOMAIN users
      PROVE  CredentialsHaveOwners'
  <2>1. [c EXCEPT !.valid = FALSE].user = c.user
    BY DEF TypeOK, Cred
  <2> QED BY <1>2, <2>1 DEF CredentialsHaveOwners
<1> QED BY <1>1, <1>2 DEF CredsStep, CredentialsHaveOwners

\* What a step can do to the requests: let one in with a user's role, let one
\* in as anonymous, or end some.
RequestsStep ==
    \/ \E r \in Requests, c \in creds : Gate(r, c)
    \/ \E r \in Requests : GateAnonymous(r)
    \/ \E r \in Requests : requests' = [requests EXCEPT ![r] = Nobody]
    \/ requests' = requests
    \/ requests' = [r \in Requests |-> Nobody]

LEMMA NextRequestsStep == [Next]_vars => RequestsStep
<1> SUFFICES ASSUME [Next]_vars PROVE RequestsStep
  OBVIOUS
<1> USE DEF RequestsStep
<1>1. ASSUME NEW r \in Requests, Administer(r) PROVE RequestsStep
  BY <1>1 DEF Administer, CreateUser, ChangeRole, ToggleDisable, DeleteUser, CreateApiToken,
              RevokeApiToken, AdminHandler
<1>2. ASSUME NEW r \in Requests, Logout(r) \/ Answer(r) PROVE RequestsStep
  BY <1>2 DEF Logout, Answer
<1>3. ASSUME \/ \E id \in DOMAIN users : Login(id)
             \/ \E c \in creds : SessionExpires(c)
             \/ Startup \/ WriteBootstrap \/ Crash \/ Setup \/ CliCreateAdmin
             \/ \E on \in AuthSettings : SetAuth(on)
      PROVE  RequestsStep
  BY <1>3 DEF Login, SessionExpires, Startup, WriteBootstrap, Crash, SetAuth, Setup,
              SetupCheck, SetupCreate, SetupSession, ConsumeBootstrap, CliCreateAdmin
<1>4. ASSUME UNCHANGED vars PROVE RequestsStep
  BY <1>4 DEF vars
<1> QED BY <1>1, <1>2, <1>3, <1>4 DEF Next

LEMMA RequestsTypeStep ==
    TypeOK /\ RequestsStep => requests' \in [Requests -> Caller]
<1> SUFFICES ASSUME TypeOK, RequestsStep PROVE requests' \in [Requests -> Caller]
  OBVIOUS
<1>0. Nobody \in Caller
  BY DEF Nobody, Caller
<1>1. ASSUME NEW r \in Requests, NEW c \in creds, Gate(r, c)
      PROVE  requests' \in [Requests -> Caller]
  <2>1. [user |-> c.user, role |-> users[c.user].role, cred |-> c.num] \in Caller
    BY <1>1 DEF Gate, TypeOK, Cred, User, Caller
  <2> QED BY <1>1, <2>1 DEF Gate, TypeOK
<1>2. ASSUME NEW r \in Requests, GateAnonymous(r) PROVE requests' \in [Requests -> Caller]
  <2>1. Anonymous \in Caller
    BY AccountsAssumption DEF Anonymous, Caller, AccountsAssumption
  <2> QED BY <1>2, <2>1 DEF GateAnonymous, TypeOK
<1>3. ASSUME NEW r \in Requests, requests' = [requests EXCEPT ![r] = Nobody]
      PROVE  requests' \in [Requests -> Caller]
  BY <1>0, <1>3 DEF TypeOK
<1>4. ASSUME requests' = requests \/ requests' = [r \in Requests |-> Nobody]
      PROVE  requests' \in [Requests -> Caller]
  BY <1>0, <1>4 DEF TypeOK
<1> QED BY <1>1, <1>2, <1>3, <1>4 DEF RequestsStep

LEMMA TypeOKStep == AccountsAssumption /\ TypeOK /\ [Next]_vars => TypeOK'
<1> SUFFICES ASSUME AccountsAssumption, TypeOK, [Next]_vars PROVE TypeOK'
  OBVIOUS
<1>1. /\ lastUser' \in Nat
      /\ DOMAIN users' \subseteq 1 .. lastUser'
      /\ users' \in [DOMAIN users' -> User]
  BY NextUsersStep, UsersTypeStep
<1>2. lastCred' \in Nat /\ creds' \subseteq Cred
  BY NextCredsStep, CredsTypeStep
<1>3. requests' \in [Requests -> Caller]
  BY NextRequestsStep, RequestsTypeStep
<1>4. /\ crashes' \in Nat /\ claims' \in Nat /\ authOn' \in BOOLEAN
      /\ bootstrap' \in {"absent", "empty", "token"}
      /\ web' \in {"starting", "writing", "up", "claiming", "created", "signedIn"}
  <2>1. ASSUME NEW r \in Requests,
               Administer(r) \/ GateAnonymous(r) \/ Logout(r) \/ Answer(r)
                 \/ \E c \in creds : Gate(r, c)
        PROVE  UNCHANGED <<bootstrap, web, claims, authOn, crashes>>
    BY <2>1 DEF Administer, CreateUser, ChangeRole, ToggleDisable, DeleteUser, CreateApiToken,
                RevokeApiToken, AdminHandler, GateAnonymous, Logout, Answer, Gate
  <2>2. ASSUME \/ \E id \in DOMAIN users : Login(id)
               \/ \E c \in creds : SessionExpires(c)
               \/ CliCreateAdmin \/ UNCHANGED vars
        PROVE  UNCHANGED <<bootstrap, web, claims, authOn, crashes>>
    BY <2>2 DEF Login, SessionExpires, CliCreateAdmin, vars
  <2>3. ASSUME NEW on \in AuthSettings, SetAuth(on)
        PROVE  authOn' \in BOOLEAN /\ UNCHANGED <<bootstrap, web, claims, crashes>>
    BY <2>3 DEF SetAuth, AccountsAssumption, TypeOK
  <2> QED
    BY <2>1, <2>2, <2>3 DEF Next, TypeOK, Startup, WriteBootstrap, Setup, SetupCheck, SetupCreate,
                            SetupSession, ConsumeBootstrap, Crash
<1> QED BY <1>1, <1>2, <1>3, <1>4 DEF TypeOK

-----------------------------------------------------------------------------
\* The inductive invariant: types and owners, and that an instance /setup has
\* claimed has an admin, so that nobody is inside /setup a second time.
IInv ==
    /\ TypeOK
    /\ CredentialsHaveOwners
    /\ claims > 0 => ActiveAdmins # {}
    /\ web = "claiming" => claims = 0
    /\ ClaimedOnce

LEMMA InitIInv == AccountsAssumption /\ Init => IInv
<1> SUFFICES ASSUME AccountsAssumption, Init PROVE IInv
  OBVIOUS
<1>1. TypeOK
  BY InitTypeOK
<1> QED BY <1>1 DEF Init, IInv, CredentialsHaveOwners, ClaimedOnce

\* Only SetupCheck enters /setup, and only SetupCreate counts.
ClaimsStep ==
    \/ SetupCreate
    \/ claims' = claims /\ (web' = "claiming" => web = "claiming" \/ ~UsersExist)

LEMMA NextClaimsStep == [Next]_vars => ClaimsStep
<1> SUFFICES ASSUME [Next]_vars PROVE ClaimsStep
  OBVIOUS
<1> USE DEF ClaimsStep
<1>1. ASSUME NEW r \in Requests,
             Administer(r) \/ GateAnonymous(r) \/ Logout(r) \/ Answer(r)
               \/ \E c \in creds : Gate(r, c)
      PROVE  ClaimsStep
  BY <1>1 DEF Administer, CreateUser, ChangeRole, ToggleDisable, DeleteUser, CreateApiToken,
              RevokeApiToken, AdminHandler, GateAnonymous, Logout, Answer, Gate
<1>2. ASSUME \/ \E id \in DOMAIN users : Login(id)
             \/ \E c \in creds : SessionExpires(c)
             \/ \E on \in AuthSettings : SetAuth(on)
             \/ CliCreateAdmin \/ UNCHANGED vars
      PROVE  ClaimsStep
  BY <1>2 DEF Login, SessionExpires, SetAuth, CliCreateAdmin, vars
<1>3. ASSUME Startup \/ WriteBootstrap \/ Setup \/ Crash PROVE ClaimsStep
  BY <1>3 DEF Startup, WriteBootstrap, Setup, SetupCheck, SetupSession, ConsumeBootstrap, Crash
<1> QED BY <1>1, <1>2, <1>3 DEF Next

LEMMA IInvStep == AccountsAssumption /\ IInv /\ [Next]_vars => IInv'
<1> SUFFICES ASSUME AccountsAssumption, IInv, [Next]_vars PROVE IInv'
  OBVIOUS
<1>0. TypeOK /\ UsersStep /\ claims \in Nat
  BY NextUsersStep DEF IInv, TypeOK
<1>1. TypeOK'
  BY TypeOKStep DEF IInv
<1>2. CredentialsHaveOwners'
  BY NextCredsStep, OwnersStep DEF IInv
<1>3. ActiveAdmins # {} => ActiveAdmins' # {}
  BY <1>0, AdminStaysStep
<1>4. CASE SetupCreate
  <2>1. claims = 0 /\ claims' = 1 /\ web' = "created"
    BY <1>4 DEF SetupCreate, IInv
  <2>2. lastUser + 1 \in ActiveAdmins'
    BY <1>4 DEF SetupCreate, AddUser, ActiveAdmins
  <2> QED BY <1>1, <1>2, <2>1, <2>2 DEF IInv, ClaimedOnce
<1>5. CASE claims' = claims /\ (web' = "claiming" => web = "claiming" \/ ~UsersExist)
  <2>1. ~UsersExist => claims = 0
    <3>1. ~UsersExist => ActiveAdmins = {}
      BY DEF UsersExist, ActiveAdmins
    <3> QED BY <1>0, <3>1 DEF IInv
  <2> QED BY <1>1, <1>2, <1>3, <1>5, <2>1 DEF IInv, ClaimedOnce
<1> QED BY <1>4, <1>5, NextClaimsStep DEF ClaimsStep

LEMMA Invariance == Spec => []IInv
BY InitIInv, IInvStep, AccountsAssumption, PTL DEF Spec

\* The types of the model's state.
THEOREM TypeCorrect == Spec => []TypeOK
<1>1. IInv => TypeOK
  BY DEF IInv
<1> QED BY <1>1, Invariance, PTL

\* Every session and API token belongs to a user in the table: users.delete
\* cascades and no credential is made for a user who is gone.
THEOREM CredentialsHaveOwnersHolds == Spec => []CredentialsHaveOwners
<1>1. IInv => CredentialsHaveOwners
  BY DEF IInv
<1> QED BY <1>1, Invariance, PTL

\* /setup creates at most one account, for any number of crashes and whatever
\* becomes of that account.
THEOREM ClaimedOnceHolds == Spec => []ClaimedOnce
<1>1. IInv => ClaimedOnce
  BY DEF IInv
<1> QED BY <1>1, Invariance, PTL

\* The last active admin cannot be demoted, disabled or deleted, however the
\* requests interleave.
THEOREM AdminRemainsHolds == Spec => AdminRemains
<1>1. IInv /\ [Next]_vars => [ActiveAdmins # {} => ActiveAdmins' # {}]_vars
  BY AccountsAssumption, NextUsersStep, AdminStaysStep DEF IInv
<1> QED BY <1>1, Invariance, PTL DEF Spec, AdminRemains

-----------------------------------------------------------------------------
\* With auth enabled all along: a request let in as an admin, however long
\* ago, means that there is an admin still.
Administered ==
    /\ authOn = TRUE
    /\ \A r \in Requests : requests[r].role = "admin" => ActiveAdmins # {}
    /\ AlwaysAdministered

LEMMA AddedAdmin == TypeOK /\ AddUser("admin") => ActiveAdmins' # {}
BY DEF AddUser, ActiveAdmins

LEMMA AdministeredStep ==
    ASSUME AuthSettings = {TRUE}, IInv, Administered, [Next]_vars
    PROVE  Administered'
<1>0. TypeOK /\ UsersStep /\ RequestsStep
  BY AccountsAssumption, NextUsersStep, NextRequestsStep DEF IInv
<1>1. ActiveAdmins # {} => ActiveAdmins' # {}
  BY <1>0, AdminStaysStep
<1>2. authOn' = TRUE
  <2>1. authOn' = authOn \/ \E on \in AuthSettings : SetAuth(on)
    BY DEF Next, vars, Administer, CreateUser, ChangeRole, ToggleDisable, DeleteUser,
           CreateApiToken, RevokeApiToken, AdminHandler, GateAnonymous, Logout, Answer, Gate,
           Login, SessionExpires, Startup, WriteBootstrap, Setup, SetupCheck, SetupCreate,
           SetupSession, ConsumeBootstrap, CliCreateAdmin, Crash
  <2> QED BY <2>1 DEF SetAuth, Administered
<1>3. ASSUME NEW q \in Requests, requests'[q].role = "admin" PROVE ActiveAdmins' # {}
  <2>1. ASSUME NEW r \in Requests, NEW c \in creds, Gate(r, c) PROVE ActiveAdmins # {}
    <3>1. CASE q = r
      <4>1. users[c.user].role = "admin"
        BY <1>0, <1>3, <2>1, <3>1 DEF Gate, TypeOK
      <4> QED BY <2>1, <4>1 DEF Gate, ActiveAdmins
    <3>2. CASE q # r
      BY <1>0, <1>3, <2>1, <3>2 DEF Gate, TypeOK, Administered
    <3> QED BY <3>1, <3>2
  <2>2. ~ \E r \in Requests : GateAnonymous(r)
    BY DEF GateAnonymous, Administered
  <2>3. ASSUME NEW r \in Requests, requests' = [requests EXCEPT ![r] = Nobody]
        PROVE  ActiveAdmins # {}
    BY <1>0, <1>3, <2>3 DEF Nobody, TypeOK, Administered
  <2>4. ASSUME requests' = requests \/ requests' = [r \in Requests |-> Nobody]
        PROVE  ActiveAdmins # {}
    BY <1>3, <2>4 DEF Nobody, Administered
  <2> QED BY <1>0, <1>1, <2>1, <2>2, <2>3, <2>4 DEF RequestsStep
<1>4. AlwaysAdministered'
  <2>1. CASE DOMAIN users # {}
    BY <1>1, <2>1 DEF Administered, AlwaysAdministered
  <2>2. CASE DOMAIN users = {}
    <3>1. ASSUME NEW r \in Requests PROVE ~Administer(r)
      <4>1. requests[r].role # "admin"
        BY <2>2 DEF Administered, ActiveAdmins
      <4> QED
        BY <4>1 DEF Administer, CreateUser, ChangeRole, ToggleDisable, DeleteUser,
                    CreateApiToken, RevokeApiToken, AdminHandler
    <3>2. ASSUME CliCreateAdmin \/ SetupCreate PROVE ActiveAdmins' # {}
      BY <1>0, <3>2, AddedAdmin DEF CliCreateAdmin, SetupCreate
    <3>3. users' = users \/ CliCreateAdmin \/ SetupCreate
      BY <3>1 DEF Next, vars, GateAnonymous, Logout, Answer, Gate, Login, SessionExpires,
                  Startup, WriteBootstrap, Setup, SetupCheck, SetupSession, ConsumeBootstrap,
                  Crash, SetAuth
    <3> QED BY <2>2, <3>2, <3>3 DEF AlwaysAdministered
  <2> QED BY <2>1, <2>2
<1> QED BY <1>2, <1>3, <1>4 DEF Administered

\* As long as auth has never been switched off, an instance that has users has
\* an active admin.
THEOREM AlwaysAdministeredHolds ==
    ASSUME AuthSettings = {TRUE}
    PROVE  Spec => []AlwaysAdministered
<1>1. Init => Administered
  BY DEF Init, Administered, AlwaysAdministered, Nobody
<1>2. IInv /\ Administered /\ [Next]_vars => Administered'
  BY AdministeredStep
<1>3. Administered => AlwaysAdministered
  BY DEF Administered
<1> QED BY <1>1, <1>2, <1>3, Invariance, PTL DEF Spec
=============================================================================

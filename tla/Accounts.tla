------------------------------ MODULE Accounts ------------------------------
(***************************************************************************)
(* The accounts of the web service: the users, sessions and API tokens of  *)
(* services/web/src/auth.py, the first-run setup of routes/auth.py and     *)
(* main.py, and the user administration of routes/users.py.                *)
(*                                                                         *)
(* One event loop runs the handlers, and none of them awaits between its   *)
(* reads and its writes, so each is one step here.  But the middleware     *)
(* looks the caller up before the body of the request is read, so a        *)
(* handler works with what was true when the request was let in.  The      *)
(* setup handler is split where a crash or the command line, which is a    *)
(* process of its own, can come between.  User and token ids are never     *)
(* reused (AUTOINCREMENT).  Passwords and user names are left out, and so  *)
(* is the lockout, which LoginLockout models.                              *)
(***************************************************************************)
EXTENDS Naturals, FiniteSets

CONSTANTS
    Requests,      \* requests in flight at the same time
    Roles,         \* VALID_ROLES; those other than "admin" are alike here
    AuthSettings,  \* the values system.auth.enabled may take
    MaxUsers,      \* bound: users ever created
    MaxCreds,      \* bound: sessions and API tokens ever created
    MaxCrashes     \* bound: restarts of the web service

ASSUME AccountsAssumption ==
    /\ "admin" \in Roles /\ "none" \notin Roles
    /\ AuthSettings \subseteq BOOLEAN /\ AuthSettings # {}
    /\ MaxUsers \in Nat /\ MaxCreds \in Nat /\ MaxCrashes \in Nat

VARIABLES
    users,      \* users[id]: the row of a user; the domain is the ids in the table
    lastUser,   \* the last id given to a user
    creds,      \* the rows of sessions and api_tokens
    lastCred,   \* the last number given to one
    requests,   \* requests[r]: whom the middleware let in
    bootstrap,  \* the file /data/bootstrap_token
    web,        \* where the web process is: starting up, serving, in /setup
    claims,     \* users /setup has created
    authOn,     \* system.auth.enabled
    crashes

vars == <<users, lastUser, creds, lastCred, requests, bootstrap, web, claims, authOn, crashes>>

User == [role : Roles, disabled : BOOLEAN]
\* valid: a session has not expired, an API token has not been revoked.
Cred == [num : Nat, kind : {"session", "token"}, user : Nat, valid : BOOLEAN]
Caller == [user : Nat, role : Roles \cup {"none"}, cred : Nat]

Nobody == [user |-> 0, role |-> "none", cred |-> 0]
Anonymous == [user |-> 0, role |-> "admin", cred |-> 0]

TypeOK ==
    /\ lastUser \in Nat /\ lastCred \in Nat /\ crashes \in Nat /\ claims \in Nat
    /\ DOMAIN users \subseteq 1 .. lastUser
    /\ users \in [DOMAIN users -> User]
    /\ creds \subseteq Cred
    /\ requests \in [Requests -> Caller]
    /\ bootstrap \in {"absent", "empty", "token"}
    /\ web \in {"starting", "writing", "up", "claiming", "created", "signedIn"}
    /\ authOn \in BOOLEAN

Init ==
    /\ users = [id \in {} |-> [role |-> "admin", disabled |-> FALSE]]
    /\ lastUser = 0
    /\ creds = {} /\ lastCred = 0
    /\ requests = [r \in Requests |-> Nobody]
    /\ bootstrap = "absent"
    /\ web = "starting"
    /\ claims = 0
    /\ authOn \in AuthSettings
    /\ crashes = 0

\* users_exist
UsersExist == \E id \in DOMAIN users : ~users[id].disabled

\* What count_active_admins and the guards in SQL count.
ActiveAdmins == {id \in DOMAIN users : users[id].role = "admin" /\ ~users[id].disabled}

-----------------------------------------------------------------------------
\* Mutant: the sequence the ids come from is not written on.
AddUserKeepsSequence(role) ==
    /\ lastUser < MaxUsers
    /\ users' = [id \in DOMAIN users \cup {lastUser + 1} |->
                   IF id = lastUser + 1 THEN [role |-> role, disabled |-> FALSE] ELSE users[id]]
    /\ UNCHANGED lastUser

\* create_user: a new row under a new id.
AddUser(role) ==
    /\ lastUser < MaxUsers
    /\ lastUser' = lastUser + 1
    /\ users' = [id \in DOMAIN users \cup {lastUser + 1} |->
                   IF id = lastUser + 1 THEN [role |-> role, disabled |-> FALSE] ELSE users[id]]

\* create_session and create_api_token; the foreign key refuses an unknown user.
AddCred(kind, id, kept) ==
    /\ lastCred < MaxCreds
    /\ id \in DOMAIN users
    /\ lastCred' = lastCred + 1
    /\ creds' = kept \cup {[num |-> lastCred + 1, kind |-> kind, user |-> id, valid |-> TRUE]}

SetRole(id, role) == users' = [users EXCEPT ![id].role = role]

\* Mutant: the count includes the admin who is about to go.
NotTheOnlyAdmin(id) == users[id].role # "admin" \/ Cardinality(ActiveAdmins) >= 1

\* The WHERE clause of try_demote_admin and try_disable_admin.
NotTheLastAdmin(id) == users[id].role # "admin" \/ Cardinality(ActiveAdmins) > 1

\* try_demote_admin
TryDemoteAdmin(id, role) ==
    /\ role = "admin" \/ NotTheLastAdmin(id)
    /\ SetRole(id, role)

\* try_disable_admin
TryDisableAdmin(id, disabled) ==
    /\ disabled => NotTheLastAdmin(id)
    /\ users' = [users EXCEPT ![id].disabled = disabled]

\* The WHERE clause of try_delete_admin: a disabled admin may always go.
MayBeDeleted(id) == users[id].disabled \/ NotTheLastAdmin(id)

\* Mutant: foreign_keys is off, so the sessions and tokens stay.
TryDeleteAdminWithoutCascade(id) ==
    /\ MayBeDeleted(id)
    /\ users' = [x \in DOMAIN users \ {id} |-> users[x]]
    /\ creds' = creds

\* try_delete_admin; sessions and api_tokens cascade.
TryDeleteAdmin(id) ==
    /\ MayBeDeleted(id)
    /\ users' = [x \in DOMAIN users \ {id} |-> users[x]]
    /\ creds' = {c \in creds : c.user # id}

-----------------------------------------------------------------------------
\* The middleware: a session or a token of a user who is not disabled.
Gate(r, c) ==
    /\ web = "up" /\ authOn
    /\ requests[r] = Nobody
    /\ c \in creds
    /\ c.valid
    /\ c.user \in DOMAIN users /\ ~users[c.user].disabled
    /\ requests' = [requests EXCEPT ![r] =
                      [user |-> c.user, role |-> users[c.user].role, cred |-> c.num]]
    /\ UNCHANGED <<users, lastUser, creds, lastCred, bootstrap, web, claims, authOn, crashes>>

\* With auth disabled everybody is let in, as an administrator.
GateAnonymous(r) ==
    /\ web = "up" /\ ~authOn
    /\ requests[r] = Nobody
    /\ requests' = [requests EXCEPT ![r] = Anonymous]
    /\ UNCHANGED <<users, lastUser, creds, lastCred, bootstrap, web, claims, authOn, crashes>>

\* A handler that require_admin lets through, and its end.
AdminHandler(r) ==
    /\ web = "up"
    /\ requests[r].role = "admin"
    /\ requests' = [requests EXCEPT ![r] = Nobody]
    /\ UNCHANGED <<bootstrap, web, claims, authOn, crashes>>

CreateUser(r, role) ==
    /\ AdminHandler(r)
    /\ AddUser(role)
    /\ UNCHANGED <<creds, lastCred>>

ChangeRole(r, id, role) ==
    /\ AdminHandler(r)
    /\ id \in DOMAIN users
    /\ ~(id = requests[r].user /\ role # "admin")
    /\ TryDemoteAdmin(id, role)
    /\ UNCHANGED <<lastUser, creds, lastCred>>

ToggleDisable(r, id) ==
    /\ AdminHandler(r)
    /\ id \in DOMAIN users
    /\ id # requests[r].user
    /\ TryDisableAdmin(id, ~users[id].disabled)
    /\ UNCHANGED <<lastUser, creds, lastCred>>

DeleteUser(r, id) ==
    /\ AdminHandler(r)
    /\ id \in DOMAIN users
    /\ id # requests[r].user
    /\ TryDeleteAdmin(id)
    /\ UNCHANGED <<lastUser, lastCred>>

CreateApiToken(r) ==
    /\ AdminHandler(r)
    /\ AddCred("token", requests[r].user, creds)
    /\ UNCHANGED <<users, lastUser>>

RevokeApiToken(r, c) ==
    /\ AdminHandler(r)
    /\ c \in creds /\ c.kind = "token"
    /\ creds' = (creds \ {c}) \cup {[c EXCEPT !.valid = FALSE]}
    /\ UNCHANGED <<users, lastUser, lastCred>>

\* logout deletes the session of the cookie: the one that let the caller in, or,
\* for a caller let in otherwise, whichever session an old cookie names.
Logout(r) ==
    /\ web = "up"
    /\ requests[r] # Nobody
    /\ requests' = [requests EXCEPT ![r] = Nobody]
    /\ \E cookie \in IF requests[r] = Anonymous THEN 0 .. lastCred ELSE {requests[r].cred} :
          creds' = {c \in creds : ~(c.kind = "session" /\ c.num = cookie)}
    /\ UNCHANGED <<users, lastUser, lastCred, bootstrap, web, claims, authOn, crashes>>

\* Every other answer: a handler that changes nothing here, a caller without
\* the role, an unknown user, a weak password, a name that is taken, a refusal
\* to touch the last admin or oneself, a token for a user who is gone.
Answer(r) ==
    /\ web = "up"
    /\ requests[r] # Nobody
    /\ requests' = [requests EXCEPT ![r] = Nobody]
    /\ UNCHANGED <<users, lastUser, creds, lastCred, bootstrap, web, claims, authOn, crashes>>

\* A good login: a new session, and the expired ones are purged.
Login(id) ==
    /\ web = "up"
    /\ id \in DOMAIN users /\ ~users[id].disabled
    /\ AddCred("session", id, {c \in creds : c.kind = "session" => c.valid})
    /\ UNCHANGED <<users, lastUser, requests, bootstrap, web, claims, authOn, crashes>>

\* A session's expires_at passes.
SessionExpires(c) ==
    /\ c \in creds /\ c.kind = "session" /\ c.valid
    /\ creds' = (creds \ {c}) \cup {[c EXCEPT !.valid = FALSE]}
    /\ UNCHANGED <<users, lastUser, lastCred, requests, bootstrap, web, claims, authOn, crashes>>

-----------------------------------------------------------------------------
\* _ensure_bootstrap_token: unless there are users or the file is there, it is
\* created ...
Startup ==
    /\ web = "starting"
    /\ \/ /\ UsersExist \/ bootstrap # "absent"
          /\ web' = "up"
          /\ UNCHANGED bootstrap
       \/ /\ ~UsersExist /\ bootstrap = "absent"
          /\ web' = "writing"
          /\ bootstrap' = "empty"
    /\ UNCHANGED <<users, lastUser, creds, lastCred, requests, claims, authOn, crashes>>

\* ... and then written.  An error is logged and leaves it empty.
WriteBootstrap ==
    /\ web = "writing"
    /\ web' = "up"
    /\ bootstrap' \in {"token", "empty"}
    /\ UNCHANGED <<users, lastUser, creds, lastCred, requests, claims, authOn, crashes>>

\* Mutant: the token alone guards /setup.
SetupChecksTokenOnly ==
    /\ web = "up"
    /\ bootstrap = "token"
    /\ web' = "claiming"
    /\ UNCHANGED <<users, lastUser, creds, lastCred, requests, bootstrap, claims, authOn, crashes>>

\* setup_post with the right token, while nobody is there ...
SetupCheck ==
    /\ web = "up"
    /\ ~UsersExist
    /\ bootstrap = "token"
    /\ web' = "claiming"
    /\ UNCHANGED <<users, lastUser, creds, lastCred, requests, bootstrap, claims, authOn, crashes>>

\* ... creates the first admin (hashing the password takes its time) ...
SetupCreate ==
    /\ web = "claiming"
    /\ AddUser("admin")
    /\ claims' = claims + 1
    /\ web' = "created"
    /\ UNCHANGED <<creds, lastCred, requests, bootstrap, authOn, crashes>>

\* ... signs it in ...
SetupSession ==
    /\ web = "created"
    /\ AddCred("session", lastUser, creds)
    /\ web' = "signedIn"
    /\ UNCHANGED <<users, lastUser, requests, bootstrap, claims, authOn, crashes>>

\* ... and deletes the token; an error is logged and leaves it.
ConsumeBootstrap ==
    /\ web = "signedIn"
    /\ bootstrap' \in {"absent", bootstrap}
    /\ web' = "up"
    /\ UNCHANGED <<users, lastUser, creds, lastCred, requests, claims, authOn, crashes>>

\* python auth.py create-admin, from a shell.
CliCreateAdmin ==
    /\ AddUser("admin")
    /\ UNCHANGED <<creds, lastCred, requests, bootstrap, web, claims, authOn, crashes>>

\* The web service dies and is started again; the requests are gone.
Crash ==
    /\ crashes < MaxCrashes
    /\ crashes' = crashes + 1
    /\ web' = "starting"
    /\ requests' = [r \in Requests |-> Nobody]
    /\ UNCHANGED <<users, lastUser, creds, lastCred, bootstrap, claims, authOn>>

\* The operator edits system.auth.enabled.
SetAuth(on) ==
    /\ on \in AuthSettings
    /\ authOn' = on
    /\ UNCHANGED <<users, lastUser, creds, lastCred, requests, bootstrap, web, claims, crashes>>

Administer(r) ==
    \/ \E role \in Roles : CreateUser(r, role)
    \/ \E id \in DOMAIN users, role \in Roles : ChangeRole(r, id, role)
    \/ \E id \in DOMAIN users : ToggleDisable(r, id) \/ DeleteUser(r, id)
    \/ CreateApiToken(r)
    \/ \E c \in creds : RevokeApiToken(r, c)

Setup == SetupCheck \/ SetupCreate \/ SetupSession \/ ConsumeBootstrap

Next ==
    \/ \E r \in Requests :
          Administer(r) \/ GateAnonymous(r) \/ Logout(r) \/ Answer(r) \/ \E c \in creds : Gate(r, c)
    \/ \E id \in DOMAIN users : Login(id)
    \/ \E c \in creds : SessionExpires(c)
    \/ Startup \/ WriteBootstrap \/ Setup \/ CliCreateAdmin \/ Crash
    \/ \E on \in AuthSettings : SetAuth(on)

Spec == Init /\ [][Next]_vars

-----------------------------------------------------------------------------
\* Once there is an active admin there is one for ever, whatever two requests
\* that were let in as admins do to each other's accounts.
AdminRemains == [][ActiveAdmins # {} => ActiveAdmins' # {}]_vars

\* /setup makes one account and no more: neither a crash before the token is
\* deleted nor an account that was disabled or deleted opens it again.
ClaimedOnce == claims <= 1

\* A session or token in the table belongs to a user in the table, and nobody
\* who comes later inherits it.
CredentialsHaveOwners ==
    \A c \in creds : c.user \in DOMAIN users

\* With auth enabled all along, an instance that has users has an admin.
AlwaysAdministered == DOMAIN users # {} => ActiveAdmins # {}
=============================================================================

SPECIFICATION Spec
CONSTANTS
    Roles = {"admin", "user"}
    r1 = r1
    r2 = r2
    Requests = {r1, r2}
    AuthSettings = {TRUE, FALSE}
    MaxUsers = 3
    MaxCreds = 2
    MaxCrashes = 1
SYMMETRY Symmetry
INVARIANTS
    TypeOK
    ClaimedOnce
    CredentialsHaveOwners
PROPERTIES
    AdminRemains

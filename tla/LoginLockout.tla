---------------------------- MODULE LoginLockout ----------------------------
(***************************************************************************)
(* The lockout of a user name: check_lockout and record_attempt of         *)
(* services/web/src/auth.py as login_post of routes/auth.py calls them.    *)
(* Names do not affect each other, so there is one here.  Attempts are     *)
(* kept by their age in ticks; those as old as the lockout no longer       *)
(* count.  A handler runs to its end without awaiting.  record_attempt     *)
(* keeps the newest 1000 attempts of a name; a lockout's duration is taken *)
(* to see fewer.                                                           *)
(***************************************************************************)
EXTENDS Naturals, Functions

CONSTANTS
    MaxAttempts,  \* max_login_attempts
    LockoutTicks  \* lockout_duration_minutes, in ticks

ASSUME LockoutAssumption == MaxAttempts \in Nat \ {0} /\ LockoutTicks \in Nat \ {0}

VARIABLES
    failed,  \* failed[a]: failures in login_attempts that are a ticks old
    tried,   \* tried[a]: wrong passwords that were compared a ticks ago
    inside   \* the owner of the account has logged in

loginVars == <<failed, tried, inside>>

Ages == 0 .. LockoutTicks - 1

LoginTypeOK ==
    /\ failed \in [Ages -> 0 .. MaxAttempts]
    /\ tried \in [Ages -> Nat]
    /\ inside \in BOOLEAN

LoginInit ==
    /\ failed = [a \in Ages |-> 0]
    /\ tried = failed
    /\ inside = FALSE

\* Mutant: one more failure than the setting says.
AddressLockedLate == SumFunction(failed) > MaxAttempts

\* check_lockout
AddressLocked == SumFunction(failed) >= MaxAttempts

\* record_attempt with success = 0; the bound keeps mutants finite.
Record == failed' = [failed EXCEPT ![0] = IF @ <= MaxAttempts THEN @ + 1 ELSE @]

\* Mutant: the failure is not recorded.
WrongPasswordUnrecorded ==
    /\ ~AddressLocked
    /\ tried' = [tried EXCEPT ![0] = @ + 1]
    /\ UNCHANGED <<failed, inside>>

WrongPassword ==
    /\ ~AddressLocked
    /\ tried' = [tried EXCEPT ![0] = @ + 1]
    /\ Record
    /\ UNCHANGED inside

\* A success is recorded, too, but failures before it go on counting.
RightPassword ==
    /\ ~AddressLocked
    /\ inside' = TRUE
    /\ UNCHANGED <<failed, tried>>

Logout == inside /\ inside' = FALSE /\ UNCHANGED <<failed, tried>>

\* Mutant: what is refused is recorded as a failure.
RefusedRecords == AddressLocked /\ Record /\ UNCHANGED <<tried, inside>>

\* A locked name is answered before anything is compared or recorded.
Refused == AddressLocked /\ UNCHANGED loginVars

Older(count) == [a \in Ages |-> IF a = 0 THEN 0 ELSE count[a - 1]]

LoginTick ==
    /\ failed' = Older(failed)
    /\ tried' = [a \in Ages |-> IF a = 0 THEN 0 ELSE tried[a - 1]]
    /\ UNCHANGED inside

LoginNext == WrongPassword \/ RightPassword \/ Logout \/ Refused \/ LoginTick

LoginSpec == LoginInit /\ [][LoginNext]_loginVars

\* Time passes; wrong passwords may come as often as they like.
LoginFairSpec == LoginSpec /\ WF_loginVars(LoginTick)

-----------------------------------------------------------------------------
\* Within the lockout's duration no more than max_login_attempts wrong
\* passwords are compared, in any mix with right ones.
GuessesBounded == SumFunction(tried) <= MaxAttempts

\* A lockout ends, however often the locked name is tried meanwhile.
LockoutEnds == []<>~AddressLocked

\* The lockout's window counts every wrong password that was compared.
LockoutHolds == LoginTypeOK /\ GuessesBounded
=============================================================================

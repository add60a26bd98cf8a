------------------------------ MODULE RateLimit ------------------------------
(***************************************************************************)
(* The fixed-window rate limiter of shared/rate_limit.py as                *)
(* rate_limit_dep.py uses it, for one principal and one scope.  INCR and   *)
(* EXPIRE are two calls to Redis, and handlers wait for each in threads of *)
(* their own.  Time is in ticks.                                           *)
(***************************************************************************)
EXTENDS Integers, FiniteSets, FiniteSetsExt

CONSTANTS
    Callers,      \* requests in hand at a time
    Capacity,     \* capacity
    LimitWindow,       \* window_seconds
    MaxFailures   \* bound: Redis refuses this often

\* check lets everything through where capacity or window is not positive.
ASSUME RateAssumption ==
    Capacity \in Nat \ {0} /\ LimitWindow \in Nat \ {0} /\ MaxFailures \in Nat

VARIABLES
    count,     \* the counter; 0 if there is no key
    ttl,       \* ticks the key has left; Forever if it has no TTL
    callers,   \* what each request is waiting for
    failures,  \* how often Redis has refused
    stuck,     \* history: EXPIRE was refused for the key that is there
    admitted   \* history: requests let through, by how many ticks ago

rateVars == <<count, ttl, callers, failures, stuck, admitted>>

Forever == LimitWindow + 1

RateTypeOK ==
    /\ count \in Nat /\ ttl \in 1 .. Forever
    /\ callers \in [Callers -> {"idle", "incr", "expire"}]
    /\ failures \in 0 .. MaxFailures /\ stuck \in BOOLEAN
    /\ admitted \in [0 .. LimitWindow - 1 -> Nat]

RateInit ==
    /\ count = 0 /\ ttl = Forever
    /\ callers = [c \in Callers |-> "idle"]
    /\ failures = 0 /\ stuck = FALSE
    /\ admitted = [age \in 0 .. LimitWindow - 1 |-> 0]

\* A tick; a key whose TTL is over goes.
RateClock ==
    /\ IF ttl = 1 THEN count' = 0 /\ ttl' = Forever
                  ELSE count' = count /\ ttl' = IF ttl = Forever THEN ttl ELSE ttl - 1
    /\ stuck' = (stuck /\ count' # 0)
    /\ admitted' = [age \in 0 .. LimitWindow - 1 |-> IF age = 0 THEN 0 ELSE admitted[age - 1]]
    /\ UNCHANGED <<callers, failures>>

\* rate_limit's dependency calls check.
CheckLimit(c) ==
    /\ callers[c] = "idle"
    /\ callers' = [callers EXCEPT ![c] = "incr"]
    /\ UNCHANGED <<count, ttl, failures, stuck, admitted>>

\* Let through, or answered 429.
Answers(c, allowed) ==
    /\ callers' = [callers EXCEPT ![c] = "idle"]
    /\ admitted' = IF allowed THEN [admitted EXCEPT ![0] = @ + 1] ELSE admitted

\* Mutant: the first hit is not the one that makes the key.
IncrExpiresLate(c) ==
    /\ callers[c] = "incr"
    /\ count' = IF count <= Capacity THEN count + 1 ELSE count
    /\ IF count' > Capacity
          THEN callers' = [callers EXCEPT ![c] = "expire"] /\ UNCHANGED admitted
          ELSE Answers(c, count' <= Capacity)
    /\ UNCHANGED <<ttl, failures, stuck>>

\* INCR answers.  (A count beyond the capacity is as good as any other.)
Incr(c) ==
    /\ callers[c] = "incr"
    /\ count' = IF count <= Capacity THEN count + 1 ELSE count
    /\ IF count = 0 THEN callers' = [callers EXCEPT ![c] = "expire"] /\ UNCHANGED admitted
                    ELSE Answers(c, count' <= Capacity)
    /\ UNCHANGED <<ttl, failures, stuck>>

\* EXPIRE answers.
SetExpiry(c) ==
    /\ callers[c] = "expire"
    /\ ttl' = IF count = 0 THEN ttl ELSE LimitWindow
    /\ Answers(c, TRUE)
    /\ UNCHANGED <<count, failures, stuck>>

\* Redis refuses either: the request is let through.
RateFailsOpen(c) ==
    /\ callers[c] # "idle" /\ failures < MaxFailures
    /\ failures' = failures + 1
    /\ stuck' = (stuck \/ callers[c] = "expire")
    /\ Answers(c, TRUE)
    /\ UNCHANGED <<count, ttl>>

RateNext ==
    \/ RateClock
    \/ \E c \in Callers : CheckLimit(c) \/ Incr(c) \/ SetExpiry(c) \/ RateFailsOpen(c)

\* Time passes, and calls to Redis return.
RateFairness ==
    WF_rateVars(RateClock) /\ \A c \in Callers : WF_rateVars(Incr(c) \/ SetExpiry(c))
RateSpec == RateInit /\ [][RateNext]_rateVars /\ RateFairness

-----------------------------------------------------------------------------
\* A window's length of time sees no more than two windows' worth of requests,
\* those aside that Redis let through by refusing; and a key that nobody is about
\* to give a TTL has one, unless that was refused.
LimiterHolds ==
    /\ RateTypeOK
    /\ MapThenSumSet(LAMBDA age : admitted[age], 0 .. LimitWindow - 1) <= 2 * Capacity + failures
    /\ count > 0 /\ ttl = Forever => stuck \/ \E c \in Callers : callers[c] = "expire"

\* "When the count first crosses 1 we set EXPIRE on the key so it rolls over": who
\* is over the limit is let in again.
\* The code does not keep this; TLC refutes it (README, section 3).
LimitIsLifted == count > Capacity ~> count = 0
=============================================================================

------------------------------ MODULE FifoMutex ------------------------------
(***************************************************************************)
(* What FairLock promises its callers: a mutex with at most one owner      *)
(* whose waiters are granted it in the order in which they asked, and      *)
(* which a waiter may give up on.  There is no internal lock, no event     *)
(* object and no timeout race at this level: ownership passes from one     *)
(* thread to the next in one step.                                         *)
(***************************************************************************)
EXTENDS Naturals, Sequences

CONSTANTS Threads, NoOwner

VARIABLES
    owner,    \* the thread that owns the mutex, or NoOwner
    waiters   \* the threads that asked and have neither got it nor given up

mutexVars == <<owner, waiters>>

AbsInit == owner = NoOwner /\ waiters = <<>>

\* A thread asks: it owns a free mutex at once and joins the tail otherwise.
Ask(t) ==
    /\ owner # t
    /\ \A i \in DOMAIN waiters : waiters[i] # t
    /\ \/ /\ owner = NoOwner
          /\ owner' = t
          /\ UNCHANGED waiters
       \/ /\ owner # NoOwner
          /\ waiters' = Append(waiters, t)
          /\ UNCHANGED owner

\* The i-th waiter gives up; the order of the others is kept.
GiveUp(i) ==
    /\ i \in DOMAIN waiters
    /\ waiters' = [j \in 1 .. Len(waiters) - 1 |->
                      IF j < i THEN waiters[j] ELSE waiters[j + 1]]
    /\ UNCHANGED owner

\* The owner leaves: the longest waiting thread owns the mutex from now on.
Leave ==
    /\ owner # NoOwner
    /\ \/ /\ waiters = <<>>
          /\ owner' = NoOwner
          /\ UNCHANGED waiters
       \/ /\ waiters # <<>>
          /\ owner' = Head(waiters)
          /\ waiters' = Tail(waiters)

AbsNext ==
    \/ \E t \in Threads : Ask(t)
    \/ \E i \in DOMAIN waiters : GiveUp(i)
    \/ Leave

AbsSpec == AbsInit /\ [][AbsNext]_mutexVars
=============================================================================

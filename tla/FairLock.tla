------------------------------- MODULE FairLock -------------------------------
(***************************************************************************)
(* services/detector/src/fair_lock.py: the FIFO lock that camera threads   *)
(* take around YOLODetector.predict (services/detector/src/detector.py).   *)
(*                                                                         *)
(* Every `with self._lock` block of the source is one action.  The wait on *)
(* the caller's own Event and the block that follows an expired wait are   *)
(* separate actions, because release() may run between the two.  A thread  *)
(* has one Event per acquire(), so the model names the Event by its        *)
(* thread.                                                                 *)
(***************************************************************************)
EXTENDS Naturals, Sequences, SequencesExt

CONSTANTS
    Threads,   \* camera threads sharing one detector
    NoOwner    \* a value that is not a thread, for the refinement mapping

ASSUME ThreadsAssumption == IsFiniteSet(Threads) /\ NoOwner \notin Threads

VARIABLES
    held,      \* FairLock._held
    queue,     \* FairLock._queue, each Event named by the thread it belongs to
    isSet,     \* isSet[t]: the Event of t's current acquire() is set
    pc         \* where each thread is in predict()

vars == <<held, queue, isSet, pc>>

PCs == {"idle", "waiting", "expired", "critical"}

\* Types, and the bound the source relies on without stating it: _queue never
\* holds more Events than there are camera threads.
TypeOK ==
    /\ held \in BOOLEAN
    /\ queue \in Seq(Threads) /\ Len(queue) <= Cardinality(Threads)
    /\ isSet \in [Threads -> BOOLEAN]
    /\ pc \in [Threads -> PCs]

Init ==
    /\ held = FALSE
    /\ queue = <<>>
    /\ isSet = [t \in Threads |-> FALSE]
    /\ pc = [t \in Threads |-> "idle"]

-----------------------------------------------------------------------------
\* acquire(), up to event.wait(): a free lock is taken and the fresh Event set
\* at once; otherwise the fresh Event joins the queue.
Acquire(t) ==
    /\ pc[t] = "idle"
    /\ pc' = [pc EXCEPT ![t] = "waiting"]
    /\ \/ /\ ~held
          /\ held' = TRUE
          /\ isSet' = [isSet EXCEPT ![t] = TRUE]
          /\ UNCHANGED queue
       \/ /\ held
          /\ queue' = Append(queue, t)
          /\ UNCHANGED <<held, isSet>>

\* event.wait() returns True: the caller owns the lock and runs the model.
Wake(t) ==
    /\ pc[t] = "waiting"
    /\ isSet[t]
    /\ pc' = [pc EXCEPT ![t] = "critical"]
    /\ UNCHANGED <<held, queue, isSet>>

\* event.wait() returns False.  The internal lock is not held here.
Expire(t) ==
    /\ pc[t] = "waiting"
    /\ ~isSet[t]
    /\ pc' = [pc EXCEPT ![t] = "expired"]
    /\ UNCHANGED <<held, queue, isSet>>

\* Mutant: the timed-out caller raises without removing its Event.
WithdrawLeavesEvent(t) ==
    /\ pc[t] = "expired"
    /\ pc' = [pc EXCEPT ![t] = IF isSet[t] THEN "critical" ELSE "idle"]
    /\ UNCHANGED <<held, queue, isSet>>

\* Mutant: an expired wait always raises; a hand-over that raced it is lost.
WithdrawIgnoresHandOver(t) ==
    /\ pc[t] = "expired"
    /\ queue' = RemoveFirst(queue, t)
    /\ pc' = [pc EXCEPT ![t] = "idle"]
    /\ UNCHANGED <<held, isSet>>

\* The block after an expired wait.  Still queued: leave the queue and raise
\* TimeoutError.  Not queued (deque.remove raised ValueError): a release() has
\* popped and set our Event meanwhile, and the hand-over is accepted.
Withdraw(t) ==
    /\ pc[t] = "expired"
    /\ \/ /\ Contains(queue, t)
          /\ queue' = RemoveFirst(queue, t)
          /\ pc' = [pc EXCEPT ![t] = "idle"]
       \/ /\ ~Contains(queue, t)
          /\ pc' = [pc EXCEPT ![t] = IF isSet[t] THEN "critical" ELSE "idle"]
          /\ UNCHANGED queue
    /\ UNCHANGED <<held, isSet>>

\* Mutant: release() wakes the head of the queue and frees the lock as well.
ReleaseAlsoFrees(t) ==
    /\ pc[t] = "critical"
    /\ pc' = [pc EXCEPT ![t] = "idle"]
    /\ held' = FALSE
    /\ IF queue # <<>>
       THEN /\ queue' = Tail(queue)
            /\ isSet' = [isSet EXCEPT ![t] = FALSE, ![Head(queue)] = TRUE]
       ELSE /\ isSet' = [isSet EXCEPT ![t] = FALSE]
            /\ UNCHANGED queue

\* Mutant: release() wakes the youngest waiter (pop instead of popleft).
ReleaseLifo(t) ==
    /\ pc[t] = "critical"
    /\ pc' = [pc EXCEPT ![t] = "idle"]
    /\ IF queue # <<>>
       THEN /\ queue' = Front(queue)
            /\ isSet' = [isSet EXCEPT ![t] = FALSE, ![Last(queue)] = TRUE]
            /\ UNCHANGED held
       ELSE /\ held' = FALSE
            /\ isSet' = [isSet EXCEPT ![t] = FALSE]
            /\ UNCHANGED queue

\* Mutant: release() pops the head and forgets to set its Event.
ReleaseForgetsSignal(t) ==
    /\ pc[t] = "critical"
    /\ pc' = [pc EXCEPT ![t] = "idle"]
    /\ isSet' = [isSet EXCEPT ![t] = FALSE]
    /\ IF queue # <<>>
       THEN queue' = Tail(queue) /\ UNCHANGED held
       ELSE held' = FALSE /\ UNCHANGED queue

\* release(): hand the lock to the head of the queue, or free it.
Release(t) ==
    /\ pc[t] = "critical"
    /\ pc' = [pc EXCEPT ![t] = "idle"]
    /\ \/ /\ queue # <<>>
          /\ queue' = Tail(queue)
          /\ isSet' = [isSet EXCEPT ![t] = FALSE, ![Head(queue)] = TRUE]
          /\ UNCHANGED held
       \/ /\ queue = <<>>
          /\ held' = FALSE
          /\ isSet' = [isSet EXCEPT ![t] = FALSE]
          /\ UNCHANGED queue

Next ==
    \E t \in Threads : Acquire(t) \/ Wake(t) \/ Expire(t) \/ Withdraw(t) \/ Release(t)

Spec == Init /\ [][Next]_vars

\* A set Event wakes its waiter, the code after an expired wait runs on, and
\* predict() releases in a finally clause once inference returns.  Calling
\* acquire() and running into the timeout are never forced.
Fairness == \A t \in Threads : WF_vars(Wake(t) \/ Withdraw(t)) /\ WF_vars(Release(t))

FairSpec == Spec /\ Fairness

-----------------------------------------------------------------------------
\* Ownership has been handed to t, whether or not t has noticed yet.
Owns(t) == isSet[t] /\ pc[t] # "idle"

\* The model runs one inference at a time: two camera threads are never both
\* between acquire() and release() (YOLODetector.predict, "without concurrent
\* model calls").
MutualExclusion ==
    \A s, t \in Threads : pc[s] = "critical" /\ pc[t] = "critical" => s = t

\* The lock is never lost and never granted twice: _held is true exactly while
\* one thread owns the lock or has been handed it, including a thread whose
\* wait has already expired.
HeldIffOwned ==
    /\ held <=> \E t \in Threads : Owns(t)
    /\ \A s, t \in Threads : Owns(s) /\ Owns(t) => s = t

\* Nobody dangles: the queue holds each waiting thread without the lock exactly
\* once and nobody else, so a timed-out caller leaves no Event behind that a
\* later release() would hand the lock to.
QueueIsExactlyTheWaiters ==
    /\ \A i, j \in DOMAIN queue : queue[i] = queue[j] => i = j
    /\ \A t \in Threads :
          (\E i \in DOMAIN queue : queue[i] = t)
             <=> pc[t] \in {"waiting", "expired"} /\ ~isSet[t]

\* No overtaking: a thread never becomes the owner while one that queued before
\* it stays queued.
QueuedBefore(s, t) == \E i, j \in DOMAIN queue : i < j /\ queue[i] = s /\ queue[j] = t

NoOvertaking ==
    [][\A s, t \in Threads :
          QueuedBefore(s, t) /\ Owns(t)' => ~Contains(queue', s)]_vars

\* No starvation: a caller of acquire() gets into the model unless its own
\* timeout expires, however often the other camera threads come back.
EventuallyServed ==
    \A t \in Threads : []<>(pc[t] # "waiting")

\* FairLock implements the FIFO mutex: its owner is the thread whose Event is
\* set, its waiters are the queue.
OwnerOf == IF \E t \in Threads : Owns(t)
           THEN CHOOSE t \in Threads : Owns(t) ELSE NoOwner

Mutex == INSTANCE FifoMutex WITH owner <- OwnerOf, waiters <- queue

ImplementsFifoMutex == Mutex!AbsSpec

\* What acquire() and release() keep together: one inference at a time, _held
\* exactly when there is an owner, and the queue exactly the waiters.
LockHolds == TypeOK /\ MutualExclusion /\ HeldIffOwned /\ QueueIsExactlyTheWaiters
=============================================================================

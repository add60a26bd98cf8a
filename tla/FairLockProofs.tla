--------------------------- MODULE FairLockProofs ---------------------------
(***************************************************************************)
(* Proofs about FairLock for every finite set of threads: mutual exclusion *)
(* and the lock's bookkeeping as inductive invariants, no overtaking, and  *)
(* the refinement of FifoMutex.                                            *)
(***************************************************************************)
EXTENDS FairLock, SeqLemmas, FiniteSetTheorems

\* The inductive invariant: who owns the lock (HeldIffOwned), who waits for it
\* (QueueIsExactlyTheWaiters), and how a thread's place in the code relates to
\* its Event.
IInv ==
    /\ held \in BOOLEAN
    /\ queue \in Seq(Threads)
    /\ isSet \in [Threads -> BOOLEAN]
    /\ pc \in [Threads -> PCs]
    /\ \A t \in Threads : pc[t] = "idle" => ~isSet[t]
    /\ \A t \in Threads : pc[t] = "critical" => isSet[t]
    /\ held <=> \E t \in Threads : isSet[t]
    /\ \A s, t \in Threads : isSet[s] /\ isSet[t] => s = t
    /\ queue # <<>> => held
    /\ QueueIsExactlyTheWaiters

\* A queue without duplicates is no longer than the set of threads.
LEMMA QueueBound == ThreadsAssumption /\ IInv => Len(queue) <= Cardinality(Threads)
<1> SUFFICES ASSUME ThreadsAssumption, IInv
             PROVE  Len(queue) <= Cardinality(Threads)
  OBVIOUS
<1>1. Len(queue) \in Nat /\ queue \in [1 .. Len(queue) -> Threads]
  BY LenProperties DEF IInv
<1>2. \A i, j \in 1 .. Len(queue) : queue[i] = queue[j] => i = j
  BY <1>1 DEF IInv, QueueIsExactlyTheWaiters
<1>3. queue \in Injection(1 .. Len(queue), Threads)
  BY <1>1, <1>2 DEF Injection, IsInjective
<1>4. Cardinality(1 .. Len(queue)) = Len(queue)
  BY <1>1, FS_Interval, SMTT(20)
<1> QED BY <1>3, <1>4, FS_Injection DEF ThreadsAssumption

\* The invariant implies the properties the runs check.
LEMMA IInvImplies ==
    ThreadsAssumption /\ IInv
      => TypeOK /\ MutualExclusion /\ HeldIffOwned /\ QueueIsExactlyTheWaiters
<1> SUFFICES ASSUME ThreadsAssumption, IInv
             PROVE  TypeOK /\ MutualExclusion /\ HeldIffOwned /\ QueueIsExactlyTheWaiters
  OBVIOUS
<1>1. TypeOK
  BY QueueBound DEF TypeOK, IInv
<1>2. MutualExclusion
  BY DEF MutualExclusion, IInv
<1>3. HeldIffOwned
  BY DEF HeldIffOwned, IInv, Owns
<1> QED BY <1>1, <1>2, <1>3 DEF IInv

LEMMA InitIInv == Init => IInv
<1> SUFFICES ASSUME Init PROVE IInv
  OBVIOUS
<1>1. queue \in Seq(Threads) /\ DOMAIN queue = {}
  BY EmptySeq DEF Init
<1>2. QueueIsExactlyTheWaiters
  BY <1>1 DEF Init, QueueIsExactlyTheWaiters
<1> QED BY <1>1, <1>2 DEF Init, IInv, PCs

LEMMA AcquireIInv ==
    ASSUME IInv, NEW t \in Threads, Acquire(t)
    PROVE  IInv'
<1>1. CASE ~held
  <2>1. /\ queue' = queue /\ queue = <<>> /\ held' = TRUE
        /\ isSet' = [isSet EXCEPT ![t] = TRUE]
        /\ pc' = [pc EXCEPT ![t] = "waiting"]
    BY <1>1 DEF Acquire, IInv
  <2>2. \A u \in Threads : ~isSet[u] /\ (isSet'[u] <=> u = t)
    BY <1>1, <2>1 DEF IInv
  <2>3. QueueIsExactlyTheWaiters'
    BY <2>1, <2>2 DEF IInv, QueueIsExactlyTheWaiters
  <2> QED BY <2>1, <2>2, <2>3 DEF IInv, PCs
<1>2. CASE held
  <2>1. /\ queue' = Append(queue, t) /\ held' = held /\ isSet' = isSet
        /\ pc' = [pc EXCEPT ![t] = "waiting"] /\ pc[t] = "idle"
    BY <1>2 DEF Acquire
  <2>2. Len(queue) \in Nat /\ DOMAIN queue = 1 .. Len(queue)
    BY LenProperties DEF IInv
  <2>3. /\ queue' \in Seq(Threads)
        /\ DOMAIN queue' = 1 .. Len(queue) + 1
        /\ \A i \in 1 .. Len(queue) : queue'[i] = queue[i]
        /\ queue'[Len(queue) + 1] = t
    <3>1. queue' \in Seq(Threads) /\ Len(queue') = Len(queue) + 1
      BY <2>1, AppendProperties DEF IInv
    <3> QED BY <2>1, <3>1, AppendProperties, LenProperties DEF IInv
  <2>4. ~isSet[t] /\ \A i \in DOMAIN queue : queue[i] # t
    BY <2>1 DEF IInv, QueueIsExactlyTheWaiters
  <2>5. \A i, j \in DOMAIN queue' : queue'[i] = queue'[j] => i = j
    BY <2>2, <2>3, <2>4 DEF IInv, QueueIsExactlyTheWaiters
  <2>6. ASSUME NEW u \in Threads
        PROVE  (\E i \in DOMAIN queue' : queue'[i] = u)
                  <=> pc'[u] \in {"waiting", "expired"} /\ ~isSet'[u]
    <3>1. CASE u = t
      BY <3>1, <2>1, <2>2, <2>3, <2>4, SMTT(20) DEF IInv
    <3>2. CASE u # t
      <4>1. (\E i \in DOMAIN queue' : queue'[i] = u) <=> (\E i \in DOMAIN queue : queue[i] = u)
        BY <3>2, <2>2, <2>3
      <4> QED BY <4>1, <3>2, <2>1 DEF IInv, QueueIsExactlyTheWaiters
    <3> QED BY <3>1, <3>2
  <2>7. QueueIsExactlyTheWaiters'
    BY <2>5, <2>6 DEF QueueIsExactlyTheWaiters
  <2> QED BY <1>2, <2>1, <2>3, <2>4, <2>7 DEF IInv, PCs
<1> QED BY <1>1, <1>2 DEF IInv

LEMMA WakeExpireIInv ==
    ASSUME IInv, NEW t \in Threads, Wake(t) \/ Expire(t)
    PROVE  IInv'
<1>1. CASE Wake(t)
  BY <1>1 DEF IInv, Wake, PCs, QueueIsExactlyTheWaiters
<1>2. CASE Expire(t)
  BY <1>2 DEF IInv, Expire, PCs, QueueIsExactlyTheWaiters
<1> QED BY <1>1, <1>2

\* What leaving the queue at position i does to who is in it.
LEMMA WithoutIndexMembers ==
    ASSUME IInv, NEW i \in DOMAIN queue, queue' = WithoutIndex(queue, i)
    PROVE  /\ \A j, k \in DOMAIN queue' : queue'[j] = queue'[k] => j = k
           /\ \A u \in Threads : (\E j \in DOMAIN queue' : queue'[j] = u)
                                   <=> u # queue[i] /\ \E j \in DOMAIN queue : queue[j] = u
<1>1. Len(queue) \in Nat /\ DOMAIN queue = 1 .. Len(queue) /\ i \in 1 .. Len(queue)
  BY LenProperties DEF IInv
<1>2. /\ DOMAIN queue' = 1 .. Len(queue) - 1
      /\ \A j \in 1 .. Len(queue) - 1 :
            queue'[j] = IF j < i THEN queue[j] ELSE queue[j + 1]
  BY DEF WithoutIndex
<1>3. \A j, k \in DOMAIN queue : queue[j] = queue[k] => j = k
  BY DEF IInv, QueueIsExactlyTheWaiters
<1>4. \A j, k \in DOMAIN queue' : queue'[j] = queue'[k] => j = k
  <2> SUFFICES ASSUME NEW j \in DOMAIN queue', NEW k \in DOMAIN queue',
                      queue'[j] = queue'[k]
               PROVE  j = k
    OBVIOUS
  <2> DEFINE at(x) == IF x < i THEN x ELSE x + 1
  <2>1. at(j) \in DOMAIN queue /\ at(k) \in DOMAIN queue
    BY <1>1, <1>2
  <2>2. queue[at(j)] = queue[at(k)]
    BY <1>1, <1>2
  <2>3. at(j) = at(k)
    BY <2>1, <2>2, <1>3
  <2> QED BY <2>3, <1>1, <1>2
<1>5. ASSUME NEW u \in Threads, NEW j \in DOMAIN queue', queue'[j] = u
      PROVE  u # queue[i] /\ \E k \in DOMAIN queue : queue[k] = u
  <2>1. CASE j < i
    BY <2>1, <1>1, <1>2, <1>3, <1>5
  <2>2. CASE ~(j < i)
    <3>1. j + 1 \in DOMAIN queue /\ j + 1 # i /\ queue[j + 1] = u
      BY <2>2, <1>1, <1>2, <1>5
    <3> QED BY <3>1, <1>3
  <2> QED BY <2>1, <2>2
<1>6. ASSUME NEW u \in Threads, u # queue[i], NEW k \in DOMAIN queue, queue[k] = u
      PROVE  \E j \in DOMAIN queue' : queue'[j] = u
  <2>1. k # i
    BY <1>6
  <2>2. CASE k < i
    <3>1. k \in DOMAIN queue' /\ queue'[k] = u
      BY <2>2, <1>1, <1>2, <1>6
    <3> QED BY <3>1
  <2>3. CASE k > i
    <3>1. k - 1 \in DOMAIN queue' /\ ~(k - 1 < i) /\ (k - 1) + 1 = k
      BY <2>3, <1>1, <1>2
    <3>2. queue'[k - 1] = queue[k]
      BY <3>1, <1>2
    <3> QED BY <3>1, <3>2, <1>6
  <2> QED BY <2>1, <2>2, <2>3, <1>1
<1> QED BY <1>4, <1>5, <1>6

LEMMA WithdrawIInv ==
    ASSUME IInv, NEW t \in Threads, Withdraw(t)
    PROVE  IInv'
<1>0. Contains(queue, t) <=> \E i \in DOMAIN queue : queue[i] = t
  BY ContainsIsOccurs DEF IInv
<1>1. CASE Contains(queue, t)
  <2>1. /\ queue' = RemoveFirst(queue, t) /\ held' = held /\ isSet' = isSet
        /\ pc' = [pc EXCEPT ![t] = "idle"] /\ pc[t] = "expired"
    BY <1>1 DEF Withdraw
  <2>2. \E i \in 1 .. Len(queue) : queue[i] = t
    BY <1>0, <1>1, LenProperties DEF IInv
  <2>3. PICK i \in 1 .. Len(queue) :
           /\ queue[i] = t
           /\ RemoveFirst(queue, t) = WithoutIndex(queue, i)
           /\ RemoveFirst(queue, t) \in Seq(Threads)
    BY <2>2, RemoveFirstEffect DEF IInv
  <2>4. i \in DOMAIN queue
    BY LenProperties DEF IInv
  <2>5. /\ \A j, k \in DOMAIN queue' : queue'[j] = queue'[k] => j = k
        /\ \A u \in Threads : (\E j \in DOMAIN queue' : queue'[j] = u)
                                <=> u # t /\ \E j \in DOMAIN queue : queue[j] = u
    BY <2>1, <2>3, <2>4, WithoutIndexMembers
  <2>6. ~isSet[t]
    BY <1>0, <1>1 DEF IInv, QueueIsExactlyTheWaiters
  <2>7. QueueIsExactlyTheWaiters'
    <3> SUFFICES ASSUME NEW u \in Threads
                 PROVE  (\E j \in DOMAIN queue' : queue'[j] = u)
                           <=> pc'[u] \in {"waiting", "expired"} /\ ~isSet'[u]
      BY <2>5 DEF QueueIsExactlyTheWaiters
    <3>1. (\E j \in DOMAIN queue : queue[j] = u)
             <=> pc[u] \in {"waiting", "expired"} /\ ~isSet[u]
      BY DEF IInv, QueueIsExactlyTheWaiters
    <3>2. pc'[u] = IF u = t THEN "idle" ELSE pc[u]
      BY <2>1 DEF IInv
    <3> QED BY <2>1, <2>5, <3>1, <3>2
  <2>8. queue' # <<>> => held'
    BY <2>1, <2>4, EmptySeq DEF IInv
  <2> QED BY <2>1, <2>3, <2>6, <2>7, <2>8 DEF IInv, PCs
<1>2. CASE ~Contains(queue, t)
  <2>1. /\ queue' = queue /\ held' = held /\ isSet' = isSet /\ pc[t] = "expired"
        /\ pc' = [pc EXCEPT ![t] = IF isSet[t] THEN "critical" ELSE "idle"]
    BY <1>2 DEF Withdraw
  <2>2. isSet[t]
    BY <1>0, <1>2, <2>1 DEF IInv, QueueIsExactlyTheWaiters
  <2>3. QueueIsExactlyTheWaiters'
    BY <2>1, <2>2 DEF IInv, QueueIsExactlyTheWaiters
  <2> QED BY <2>1, <2>2, <2>3 DEF IInv, PCs
<1> QED BY <1>1, <1>2

LEMMA ReleaseIInv ==
    ASSUME IInv, NEW t \in Threads, Release(t)
    PROVE  IInv'
<1>0. isSet[t] /\ held /\ pc[t] = "critical" /\ \A u \in Threads : isSet[u] => u = t
  BY DEF IInv, Release
<1>1. CASE queue = <<>>
  <2>1. /\ queue' = queue /\ held' = FALSE /\ isSet' = [isSet EXCEPT ![t] = FALSE]
        /\ pc' = [pc EXCEPT ![t] = "idle"]
    BY <1>1 DEF Release
  <2>2. \A u \in Threads : ~isSet'[u]
    BY <2>1, <1>0 DEF IInv
  <2>3. \A u \in Threads : ~(\E i \in DOMAIN queue : queue[i] = u)
    BY <1>1, EmptySeq
  <2>4. \A u \in Threads : pc'[u] \notin {"waiting", "expired"}
    BY <2>1, <2>3, <1>0 DEF IInv, QueueIsExactlyTheWaiters
  <2>5. QueueIsExactlyTheWaiters'
    BY <2>1, <2>3, <2>4, <1>1 DEF QueueIsExactlyTheWaiters
  <2> QED BY <2>1, <2>2, <2>5, <1>0, <1>1 DEF IInv, PCs
<1>2. CASE queue # <<>>
  <2> DEFINE h == Head(queue)
  <2>1. /\ queue' = Tail(queue) /\ held' = held
        /\ isSet' = [isSet EXCEPT ![t] = FALSE, ![h] = TRUE]
        /\ pc' = [pc EXCEPT ![t] = "idle"]
    BY <1>2 DEF Release
  <2>2. /\ Tail(queue) \in Seq(Threads)
        /\ DOMAIN Tail(queue) = 1 .. Len(queue) - 1
        /\ \A i \in 1 .. Len(queue) - 1 : Tail(queue)[i] = queue[i + 1]
        /\ h = queue[1] /\ h \in Threads
        /\ Len(queue) \in Nat /\ 1 <= Len(queue) /\ DOMAIN queue = 1 .. Len(queue)
        /\ Tail(queue) = WithoutIndex(queue, 1)
    BY <1>2, TailEffect DEF IInv
  <2>3. 1 \in DOMAIN queue /\ WithoutIndex(queue, 1) = queue'
    BY <2>1, <2>2
  <2>4. /\ \A j, k \in DOMAIN queue' : queue'[j] = queue'[k] => j = k
        /\ \A u \in Threads : (\E j \in DOMAIN queue' : queue'[j] = u)
                                <=> u # h /\ \E j \in DOMAIN queue : queue[j] = u
    BY <2>2, <2>3, WithoutIndexMembers
  <2>5. ~isSet[h] /\ pc[h] \in {"waiting", "expired"} /\ h # t
    BY <2>2, <2>3, <1>0 DEF IInv, QueueIsExactlyTheWaiters
  <2> HIDE DEF h
  <2>6. \A u \in Threads : isSet'[u] <=> u = h
    BY <2>1, <2>2, <2>5, <1>0 DEF IInv
  <2>7. \A u \in Threads : pc'[u] = IF u = t THEN "idle" ELSE pc[u]
    BY <2>1 DEF IInv
  <2>8. ASSUME NEW u \in Threads
        PROVE  (\E j \in DOMAIN queue' : queue'[j] = u)
                  <=> pc'[u] \in {"waiting", "expired"} /\ ~isSet'[u]
    <3>1. (\E j \in DOMAIN queue : queue[j] = u)
             <=> pc[u] \in {"waiting", "expired"} /\ ~isSet[u]
      BY DEF IInv, QueueIsExactlyTheWaiters
    <3> QED BY <3>1, <2>4, <2>5, <2>6, <2>7, <1>0
  <2>9. QueueIsExactlyTheWaiters'
    BY <2>4, <2>8 DEF QueueIsExactlyTheWaiters
  <2>10. isSet' \in [Threads -> BOOLEAN] /\ pc' \in [Threads -> PCs]
    BY <2>1 DEF IInv, PCs
  <2>11. \A u \in Threads : /\ pc'[u] = "idle" => ~isSet'[u]
                            /\ pc'[u] = "critical" => isSet'[u]
    <3>1. \A u \in Threads : /\ pc[u] = "idle" => ~isSet[u]
                             /\ pc[u] = "critical" => isSet[u]
      BY DEF IInv
    <3> QED BY <3>1, <2>5, <2>6, <2>7, <1>0
  <2> QED BY <2>1, <2>2, <2>6, <2>9, <2>10, <2>11, <1>0 DEF IInv
<1> QED BY <1>1, <1>2

LEMMA NextIInv == IInv /\ [Next]_vars => IInv'
<1> SUFFICES ASSUME IInv, [Next]_vars PROVE IInv'
  OBVIOUS
<1>1. CASE UNCHANGED vars
  BY <1>1 DEF vars, IInv, QueueIsExactlyTheWaiters
<1>2. ASSUME NEW t \in Threads,
             Acquire(t) \/ Wake(t) \/ Expire(t) \/ Withdraw(t) \/ Release(t)
      PROVE  IInv'
  BY <1>2, AcquireIInv, WakeExpireIInv, WithdrawIInv, ReleaseIInv
<1> QED BY <1>1, <1>2 DEF Next

LEMMA SpecIInv == Spec => []IInv
BY InitIInv, NextIInv, PTL DEF Spec

\* Types, and never more queued Events than camera threads, for any number of
\* threads.
THEOREM TypeCorrect == Spec => []TypeOK
BY SpecIInv, IInvImplies, ThreadsAssumption, PTL

\* One inference at a time, for any number of camera threads.
THEOREM MutualExclusionHolds == Spec => []MutualExclusion
BY SpecIInv, IInvImplies, ThreadsAssumption, PTL

\* The lock is neither lost nor granted twice, whatever races the timeouts.
THEOREM HeldIffOwnedHolds == Spec => []HeldIffOwned
BY SpecIInv, IInvImplies, ThreadsAssumption, PTL

\* No timed-out caller stays in the queue and no waiting one drops out of it.
THEOREM QueueHolds == Spec => []QueueIsExactlyTheWaiters
BY SpecIInv, IInvImplies, ThreadsAssumption, PTL

\* What acquire() and release() keep together, for any number of threads: the
\* conjunction the runs check (fair_lock.py:28-63).
THEOREM LockHoldsAlways == Spec => []LockHolds
<1>1. IInv => LockHolds
  BY IInvImplies, ThreadsAssumption DEF LockHolds
<1> QED BY <1>1, SpecIInv, PTL

-----------------------------------------------------------------------------
\* Only release() sets the Event of a queued thread, and only the head's.
LEMMA OnlyHeadIsHanded ==
    ASSUME IInv, [Next]_vars, NEW t \in Threads,
           \E i \in DOMAIN queue : queue[i] = t,
           isSet'[t]
    PROVE  /\ queue # <<>> /\ t = Head(queue) /\ queue' = Tail(queue)
           /\ \E u \in Threads : pc[u] = "critical"
<1>1. pc[t] \in {"waiting", "expired"} /\ ~isSet[t]
  BY DEF IInv, QueueIsExactlyTheWaiters
<1>2. ASSUME NEW u \in Threads,
             Acquire(u) \/ Wake(u) \/ Expire(u) \/ Withdraw(u) \/ UNCHANGED vars
      PROVE  FALSE
  <2>1. (isSet' = [isSet EXCEPT ![u] = TRUE] /\ u # t) \/ isSet' = isSet
    BY <1>1, <1>2 DEF Acquire, Wake, Expire, Withdraw, vars
  <2> QED BY <2>1, <1>1 DEF IInv
<1>3. PICK u \in Threads : Release(u)
  BY <1>2 DEF Next
<1>4. u # t
  BY <1>1, <1>3 DEF Release
<1>5. CASE queue = <<>>
  BY <1>5, EmptySeq
<1>6. CASE queue # <<>>
  <2>1. isSet' = [isSet EXCEPT ![u] = FALSE, ![Head(queue)] = TRUE]
    BY <1>3, <1>6 DEF Release
  <2>2. t = Head(queue)
    BY <2>1, <1>1 DEF IInv
  <2> QED BY <1>3, <1>6, <2>2 DEF Release
<1> QED BY <1>5, <1>6

\* First come, first served, for any number of threads.
THEOREM NoOvertakingHolds == Spec => NoOvertaking
<1> DEFINE Step == \A s, t \in Threads :
                      QueuedBefore(s, t) /\ Owns(t)' => ~Contains(queue', s)
<1>1. IInv /\ [Next]_vars => [Step]_vars
  <2> SUFFICES ASSUME IInv, [Next]_vars, NEW s \in Threads, NEW t \in Threads,
                      QueuedBefore(s, t), Owns(t)'
               PROVE  ~Contains(queue', s)
    OBVIOUS
  <2>1. PICK i \in DOMAIN queue, j \in DOMAIN queue : i < j /\ queue[i] = s /\ queue[j] = t
    BY DEF QueuedBefore
  <2>2. queue # <<>> /\ t = Head(queue)
    BY <2>1, OnlyHeadIsHanded DEF Owns
  <2>3. DOMAIN queue = 1 .. Len(queue) /\ Len(queue) \in Nat /\ Head(queue) = queue[1]
    BY <2>2, TailEffect DEF IInv
  <2>4. j = 1
    BY <2>1, <2>2, <2>3 DEF IInv, QueueIsExactlyTheWaiters
  <2> QED BY <2>1, <2>3, <2>4
<1> QED BY <1>1, SpecIInv, PTL DEF Spec, NoOvertaking

-----------------------------------------------------------------------------
\* The refinement mapping, read off the Events.
OwnerMatches ==
    /\ \A t \in Threads : isSet[t] => OwnerOf = t
    /\ ~held => OwnerOf = NoOwner
    /\ held => OwnerOf # NoOwner

LEMMA OwnerOfIs == IInv => OwnerMatches
<1> SUFFICES ASSUME IInv
             PROVE  /\ \A t \in Threads : isSet[t] => OwnerOf = t
                    /\ ~held => OwnerOf = NoOwner
                    /\ held => OwnerOf # NoOwner
  BY DEF OwnerMatches
<1>1. \A t \in Threads : Owns(t) <=> isSet[t]
  BY DEF IInv, Owns
<1>2. ASSUME NEW t \in Threads, isSet[t]
      PROVE  OwnerOf = t
  <2>1. \A u \in Threads : Owns(u) <=> u = t
    BY <1>1, <1>2 DEF IInv
  <2> QED BY <2>1 DEF OwnerOf
<1>3. ~held => OwnerOf = NoOwner
  BY <1>1 DEF IInv, OwnerOf
<1>4. held => OwnerOf # NoOwner
  BY <1>2, ThreadsAssumption DEF IInv, ThreadsAssumption
<1> QED BY <1>2, <1>3, <1>4

LEMMA AcquireRefines ==
    ASSUME IInv, IInv', NEW t \in Threads, Acquire(t),
           \A u \in Threads : isSet[u] => OwnerOf = u,
           ~held => OwnerOf = NoOwner, held => OwnerOf # NoOwner,
           \A u \in Threads : isSet'[u] => OwnerOf' = u
    PROVE  Mutex!Ask(t)
<1>1. \A i \in DOMAIN queue : queue[i] # t
  BY DEF IInv, QueueIsExactlyTheWaiters, Acquire
<1>2. ~isSet[t]
  BY DEF IInv, Acquire
<1>3. OwnerOf # t
  <2>1. CASE held
    BY <2>1, <1>2 DEF IInv
  <2>2. CASE ~held
    BY <2>2, ThreadsAssumption DEF ThreadsAssumption
  <2> QED BY <2>1, <2>2
<1>4. CASE ~held
  <2>1. isSet'[t] /\ queue' = queue
    BY <1>4 DEF Acquire, IInv
  <2> QED BY <2>1, <1>1, <1>3, <1>4 DEF Mutex!Ask
<1>5. CASE held
  <2>1. isSet' = isSet /\ queue' = Append(queue, t)
    BY <1>5 DEF Acquire
  <2>2. OwnerOf' = OwnerOf
    BY <1>5, <2>1 DEF IInv
  <2> QED BY <2>1, <2>2, <1>1, <1>3, <1>5 DEF Mutex!Ask
<1> QED BY <1>4, <1>5 DEF IInv

LEMMA WithdrawRefines ==
    ASSUME IInv, NEW t \in Threads, Withdraw(t), OwnerOf' = OwnerOf
    PROVE  (\E i \in DOMAIN queue : Mutex!GiveUp(i)) \/ UNCHANGED <<OwnerOf, queue>>
<1>1. CASE Contains(queue, t)
  <2>1. \E i \in 1 .. Len(queue) : queue[i] = t
    BY <1>1, ContainsIsOccurs, LenProperties DEF IInv
  <2>2. PICK i \in 1 .. Len(queue) : RemoveFirst(queue, t) = WithoutIndex(queue, i)
    BY <2>1, RemoveFirstEffect DEF IInv
  <2>3. i \in DOMAIN queue
    BY LenProperties DEF IInv
  <2>4. queue' = WithoutIndex(queue, i)
    BY <1>1, <2>2 DEF Withdraw
  <2>5. Mutex!GiveUp(i)
    BY <2>3, <2>4 DEF Mutex!GiveUp, WithoutIndex
  <2> QED BY <2>3, <2>5
<1>2. CASE ~Contains(queue, t)
  BY <1>2 DEF Withdraw
<1> QED BY <1>1, <1>2

LEMMA ReleaseRefines ==
    ASSUME IInv, IInv', NEW t \in Threads, Release(t),
           held => OwnerOf # NoOwner,
           \A u \in Threads : isSet'[u] => OwnerOf' = u,
           ~held' => OwnerOf' = NoOwner
    PROVE  Mutex!Leave
<1>1. held
  BY DEF IInv, Release
<1>2. CASE queue = <<>>
  BY <1>1, <1>2 DEF Release, Mutex!Leave
<1>3. CASE queue # <<>>
  <2>1. Head(queue) \in Threads
    BY <1>3, TailEffect DEF IInv
  <2>2. isSet'[Head(queue)] /\ queue' = Tail(queue)
    BY <1>3, <2>1 DEF Release, IInv
  <2> QED BY <1>1, <1>3, <2>1, <2>2 DEF Mutex!Leave
<1> QED BY <1>2, <1>3

\* FairLock implements the FIFO mutex, for any number of threads.
THEOREM FairLockRefines == Spec => ImplementsFifoMutex
<1>1. Init => Mutex!AbsInit
  BY DEF Init, Mutex!AbsInit, OwnerOf, Owns
<1>2. IInv /\ IInv' /\ [Next]_vars => [Mutex!AbsNext]_(Mutex!mutexVars)
  <2> SUFFICES ASSUME IInv, IInv', [Next]_vars
               PROVE  Mutex!AbsNext \/ UNCHANGED <<OwnerOf, queue>>
    BY DEF Mutex!mutexVars
  <2>1. /\ \A u \in Threads : isSet[u] => OwnerOf = u
        /\ ~held => OwnerOf = NoOwner
        /\ held => OwnerOf # NoOwner
    BY OwnerOfIs DEF OwnerMatches
  <2>2. /\ \A u \in Threads : isSet'[u] => OwnerOf' = u
        /\ ~held' => OwnerOf' = NoOwner
    <3>1. (IInv => OwnerMatches)'
      BY OwnerOfIs, PTL
    <3> QED BY <3>1 DEF OwnerMatches
  <2>3. (isSet' = isSet /\ held' = held) => OwnerOf' = OwnerOf
    BY <2>1, <2>2 DEF IInv
  <2>4. CASE UNCHANGED vars
    BY <2>3, <2>4 DEF vars
  <2>5. ASSUME NEW t \in Threads, Acquire(t)
        PROVE  Mutex!AbsNext
    BY <2>1, <2>2, <2>5, AcquireRefines DEF Mutex!AbsNext
  <2>6. ASSUME NEW t \in Threads, Wake(t) \/ Expire(t)
        PROVE  UNCHANGED <<OwnerOf, queue>>
    BY <2>3, <2>6 DEF Wake, Expire
  <2>7. ASSUME NEW t \in Threads, Withdraw(t)
        PROVE  Mutex!AbsNext \/ UNCHANGED <<OwnerOf, queue>>
    <3>1. OwnerOf' = OwnerOf
      BY <2>3, <2>7 DEF Withdraw
    <3> QED BY <2>7, <3>1, WithdrawRefines DEF Mutex!AbsNext
  <2>8. ASSUME NEW t \in Threads, Release(t)
        PROVE  Mutex!AbsNext
    BY <2>1, <2>2, <2>8, ReleaseRefines DEF Mutex!AbsNext
  <2> QED BY <2>4, <2>5, <2>6, <2>7, <2>8 DEF Next
<1> QED BY <1>1, <1>2, SpecIInv, PTL DEF Spec, ImplementsFifoMutex, Mutex!AbsSpec
=============================================================================

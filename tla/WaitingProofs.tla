---------------------------- MODULE WaitingProofs ----------------------------
(***************************************************************************)
(* Proofs about the parts of the system that wait for a turn, an answer or *)
(* a clock, for every value of their constants: the recognition buffer, the *)
(* doorbell's presses, doorbells and their watchdog, automatic re-arming,  *)
(* the lockout and the rate limit.                                         *)
(***************************************************************************)
EXTENDS MCWaiting, SeqLemmas, TLAPS

-----------------------------------------------------------------------------
(* The recognition buffer.                                                 *)

Held(e) == IsPending(e) \/ InHand(e)

\* Only a token that is set leads to an event, and to no other one's.
TokenLeads ==
    \A t \in Tokens : pending[t] # NoEvent =>
        pending[t] \in heap /\ TokenOf[pending[t]] = t

\* What each thread has in its hand agrees with where it is.
HandsAgree ==
    /\ worker.at = "dispatching" <=> worker.event # NoEvent
    /\ loop.at = "dispatching" <=> loop.event # NoEvent
    /\ loop.at # "flushing" => loop.batch = {}
    /\ loop.at = "asking" => loop.token \in Tokens
    /\ loop.at \in {"joining", "flushing", "stopped"} => shutdown

\* The two threads never hold the same event.
HandsApart ==
    worker.at = "dispatching" =>
        /\ loop.at = "dispatching" => loop.event # worker.event
        /\ loop.at = "flushing" => worker.event \notin loop.batch

\* Histories: nothing is known of an event before it is submitted, and what is
\* held, dispatched and replaced excludes each other.
HeldIsOpen ==
    \A e \in Events :
        /\ e \in heap => e \in submitted /\ TokenOf[e] # NoToken
        /\ Held(e) => e \in submitted /\ dispatches[e] = 0 /\ e \notin replaced
        /\ ~(InHand(e) /\ IsPending(e))

OnceOnly ==
    \A e \in Events :
        /\ dispatches[e] <= 1
        /\ dispatches[e] = 1 <=> e \in annotated \cup bare
        /\ e \in replaced => dispatches[e] = 0
        /\ dispatches[e] = 1 \/ e \in replaced => e \in submitted
        /\ ~(e \in annotated /\ e \in bare)

\* What _run found expired stays expired: a deadline is set once.
DueIsOver ==
    /\ worker.due \subseteq submitted
    /\ \A e \in worker.due : left[e] = 0
    /\ worker.at = "dispatching" => worker.event \in worker.due

BufferInv ==
    /\ BufferTypeOK /\ TokenLeads /\ HandsAgree /\ HandsApart /\ HeldIsOpen /\ OnceOnly
    /\ NothingDropped /\ DueIsOver

LEMMA BufferInitially == ASSUME BufferAssumption, BufferInit PROVE BufferInv
<1> USE DEF BufferAssumption, BufferInit, Waiting, Ready
<1>1. BufferTypeOK
  <2>1. 0 \in 0 .. Window /\ 0 \in 0 .. Many
    BY DEF Many
  <2> QED BY <2>1 DEF BufferTypeOK
<1>2. TokenLeads /\ HandsAgree /\ HandsApart /\ NothingDropped /\ DueIsOver
  BY DEF TokenLeads, HandsAgree, HandsApart, NothingDropped, DueIsOver
<1>3. HeldIsOpen /\ OnceOnly
  BY DEF HeldIsOpen, OnceOnly, Held, IsPending, InHand
<1> QED BY <1>1, <1>2, <1>3 DEF BufferInv

LEMMA BufferStep ==
    ASSUME BufferAssumption, BufferInv, [BufferNext]_bufferVars
    PROVE  BufferInv'
<1> USE DEF BufferAssumption, BufferInv, BufferTypeOK, Many
<1>1. ASSUME NEW e \in Events, SubmitWithoutToken(e) PROVE BufferInv'
  BY <1>1 DEF SubmitWithoutToken, Deliver, OneMore, TokenLeads, HandsAgree, HandsApart, HeldIsOpen,
              Held, IsPending, InHand, OnceOnly, NothingDropped, DueIsOver
<1>2. ASSUME NEW e \in Events, SubmitDetection(e) PROVE BufferInv'
  BY <1>2 DEF SubmitDetection, Locked, TokenLeads, HandsAgree, HandsApart, HeldIsOpen,
              Held, IsPending, InHand, OnceOnly, NothingDropped, DueIsOver
<1>3. ASSUME NEW e \in Events, ReceiveRecognition(e) PROVE BufferInv'
  <2> USE <1>3 DEF ReceiveRecognition
  <2>1. BufferTypeOK' /\ TokenLeads' /\ HandsAgree' /\ HandsApart'
    BY DEF TokenLeads, HandsAgree, HandsApart
  <2>2. HeldIsOpen' /\ OnceOnly' /\ NothingDropped' /\ DueIsOver'
    BY DEF HeldIsOpen, Held, IsPending, InHand, OnceOnly, NothingDropped, DueIsOver
  <2> QED BY <2>1, <2>2
<1>4. ASSUME TakeRecognized PROVE BufferInv'
  <2> USE <1>4 DEF TakeRecognized, Locked, Ready
  <2>1. BufferTypeOK' /\ TokenLeads' /\ HandsAgree'
    BY DEF TokenLeads, HandsAgree
  <2>2. HandsApart'
    BY DEF HandsApart, HandsAgree
  <2>3. HeldIsOpen'
    BY DEF HeldIsOpen, Held, IsPending, InHand, TokenLeads, HandsAgree
  <2>4. OnceOnly' /\ DueIsOver'
    BY DEF OnceOnly, DueIsOver
  <2>5. NothingDropped'
    BY DEF NothingDropped, IsPending, InHand, TokenLeads, HandsAgree
  <2> QED BY <2>1, <2>2, <2>3, <2>4, <2>5
<1>5. ASSUME DispatchAnnotated PROVE BufferInv'
  BY <1>5 DEF DispatchAnnotated, Deliver, OneMore, Ready, TokenLeads, HandsAgree, HandsApart,
              HeldIsOpen, Held, IsPending, InHand, OnceOnly, NothingDropped, DueIsOver
<1>6. ASSUME ReadClock PROVE BufferInv'
  <2> USE <1>6 DEF ReadClock, Waiting
  <2>1. BufferTypeOK' /\ TokenLeads' /\ HandsAgree' /\ HandsApart'
    BY DEF TokenLeads, HandsAgree, HandsApart
  <2>2. HeldIsOpen' /\ OnceOnly' /\ NothingDropped'
    BY DEF HeldIsOpen, Held, IsPending, InHand, OnceOnly, NothingDropped
  <2>3. DueIsOver'
    BY DEF DueIsOver, HeldIsOpen
  <2> QED BY <2>1, <2>2, <2>3
<1>7. ASSUME TakeLock PROVE BufferInv'
  BY <1>7 DEF TakeLock, TokenLeads, HandsAgree, HandsApart, HeldIsOpen, Held, IsPending, InHand,
              OnceOnly, NothingDropped, DueIsOver
<1>8. ASSUME NEW e \in Events, ExpireEntry(e) PROVE BufferInv'
  <2> USE <1>8 DEF ExpireEntry, Current
  <2>0. TokenOf[e] \in Tokens
    BY DEF HeldIsOpen
  <2>1. BufferTypeOK'
    BY <2>0
  <2>7. HandsAgree'
    BY DEF HandsAgree
  <2>6. TokenLeads'
    <3>1. CASE Current(e)
      <4>1. ASSUME NEW t \in Tokens, pending'[t] # NoEvent
            PROVE  pending'[t] \in heap' /\ TokenOf[pending'[t]] = t
        BY <2>0, <3>1, <4>1 DEF TokenLeads
      <4> QED BY <4>1 DEF TokenLeads
    <3>2. CASE ~Current(e)
      BY <2>0, <3>2 DEF TokenLeads
    <3> QED BY <3>1, <3>2
  <2>2. HandsApart'
    BY ZenonT(30) DEF HandsApart, HeldIsOpen, Held, IsPending, InHand
  <2>3. HeldIsOpen'
    <3>1. CASE Current(e)
      <4>1. Held(e) /\ ~InHand(e) /\ pending'[TokenOf[e]] = NoEvent
        BY <2>0, <3>1 DEF HeldIsOpen, Held, IsPending
      <4>2. \A t \in Tokens : pending'[t] # e
        BY <2>6, <4>1 DEF TokenLeads
      <4>3. \A x \in Events : IsPending(x)' => IsPending(x)
        BY <3>1 DEF IsPending
      <4>4. \A x \in Events : x # e => (InHand(x)' <=> InHand(x))
        BY <3>1 DEF InHand, HandsAgree
      <4> QED BY <3>1, <4>1, <4>2, <4>3, <4>4 DEF HeldIsOpen, Held, IsPending
    <3>2. CASE ~Current(e)
      BY <3>2 DEF HeldIsOpen, Held, IsPending, InHand, HandsAgree
    <3> QED BY <3>1, <3>2
  <2>4. OnceOnly' /\ DueIsOver'
    BY DEF OnceOnly, DueIsOver
  <2>5. NothingDropped'
    BY ZenonT(30) DEF NothingDropped, IsPending, InHand, TokenLeads, HandsAgree
  <2> QED BY <2>1, <2>2, <2>3, <2>4, <2>5, <2>6, <2>7
<1>9. ASSUME DispatchExpired PROVE BufferInv'
  <2> USE <1>9 DEF DispatchExpired, Deliver, OneMore
  <2>0. worker.event \in Events
    BY DEF HandsAgree
  <2>1. BufferTypeOK'
    <3>1. dispatches' \in [Events -> 0 .. Many] /\ bare' \subseteq Events
      BY <2>0
    <3>2. worker' \in [at : {"waiting", "asking", "expiring", "dispatching", "ended"},
                       due : SUBSET Events, event : Events \cup {NoEvent}]
      OBVIOUS
    <3> QED BY <3>1, <3>2
  <2>4. TokenLeads' /\ HandsAgree' /\ HandsApart'
    BY DEF TokenLeads, HandsAgree, HandsApart
  <2>2. HeldIsOpen' /\ OnceOnly'
    BY DEF HeldIsOpen, Held, IsPending, InHand, OnceOnly, HandsApart, HandsAgree
  <2>3. NothingDropped' /\ DueIsOver'
    BY DEF NothingDropped, IsPending, InHand, HandsAgree, OnceOnly, DueIsOver
  <2> QED BY <2>1, <2>2, <2>3, <2>4
<1>10. ASSUME ReleaseLock PROVE BufferInv'
  BY <1>10 DEF ReleaseLock, Waiting, TokenLeads, HandsAgree, HandsApart, HeldIsOpen, Held,
               IsPending, InHand, OnceOnly, NothingDropped, DueIsOver
<1>11. ASSUME Stop PROVE BufferInv'
  BY <1>11 DEF Stop, TokenLeads, HandsAgree, HandsApart, HeldIsOpen, Held, IsPending, InHand,
               OnceOnly, NothingDropped, DueIsOver
<1>12. ASSUME FlushPending PROVE BufferInv'
  <2> USE <1>12 DEF FlushPending, Locked
  <2>1. {pending[t] : t \in Tokens} \ {NoEvent} \subseteq Events
    OBVIOUS
  <2>2. BufferTypeOK' /\ TokenLeads' /\ HandsAgree' /\ HandsApart'
    BY <2>1 DEF TokenLeads, HandsAgree, HandsApart
  <2>3. HeldIsOpen'
    BY DEF HeldIsOpen, Held, IsPending, InHand
  <2>4. OnceOnly' /\ DueIsOver'
    BY DEF OnceOnly, DueIsOver
  <2>5. NothingDropped'
    BY DEF NothingDropped, IsPending, InHand, HandsAgree
  <2> QED BY <2>2, <2>3, <2>4, <2>5
<1>13. ASSUME NEW e \in Events, FlushOne(e) PROVE BufferInv'
  BY <1>13 DEF FlushOne, Deliver, OneMore, TokenLeads, HandsAgree, HandsApart, HeldIsOpen, Held,
               IsPending, InHand, OnceOnly, NothingDropped, DueIsOver
<1>14. ASSUME BufferStopped PROVE BufferInv'
  BY <1>14 DEF BufferStopped, TokenLeads, HandsAgree, HandsApart, HeldIsOpen, Held, IsPending,
               InHand, OnceOnly, NothingDropped, DueIsOver
<1>15. ASSUME BufferTick PROVE BufferInv'
  BY <1>15 DEF BufferTick, TokenLeads, HandsAgree, HandsApart, HeldIsOpen, Held, IsPending, InHand,
               OnceOnly, NothingDropped, DueIsOver
<1>16. ASSUME UNCHANGED bufferVars PROVE BufferInv'
  BY <1>16 DEF bufferVars, TokenLeads, HandsAgree, HandsApart, HeldIsOpen, Held, IsPending, InHand,
               OnceOnly, NothingDropped, DueIsOver
<1> QED BY <1>1, <1>2, <1>3, <1>4, <1>5, <1>6, <1>7, <1>8, <1>9, <1>10, <1>11, <1>12, <1>13,
           <1>14, <1>15, <1>16 DEF BufferNext, WorkerStep, LoopFinishes

LEMMA BufferAlways == BufferSpec => []BufferInv
<1>1. BufferInit => BufferInv
  BY BufferInitially, BufferAssumption
<1>2. BufferInv /\ [BufferNext]_bufferVars => BufferInv'
  BY BufferStep, BufferAssumption
<1> QED BY <1>1, <1>2, PTL DEF BufferSpec

\* However a recognition, the timeout, a republished event and the shutdown race
\* for an event, it is dispatched once or replaced and never dropped, and _run
\* finds every pending event in its heap.
THEOREM BufferIsCorrect == BufferSpec => []BufferHolds
<1>1. BufferInv => BufferHolds
  BY DEF BufferInv, BufferHolds, DispatchedAtMostOnce, HeldIsOpen, Held, OnceOnly, TokenLeads,
         PendingIsInHeap, BufferTypeOK, Many
<1> QED BY <1>1, BufferAlways, PTL

\* No event is handed on bare before its window is over, except at shutdown.
THEOREM TimeoutIsNeverEarly == BufferSpec => NoEarlyTimeout
<1>1. BufferInv /\ [BufferNext]_bufferVars =>
        [\A e \in bare' \ bare : left[e] = 0 \/ shutdown \/ TokenOf[e] = NoToken]_bufferVars
  <2> SUFFICES ASSUME BufferInv, [BufferNext]_bufferVars, NEW e \in bare' \ bare
               PROVE  left[e] = 0 \/ shutdown \/ TokenOf[e] = NoToken
    OBVIOUS
  <2>1. CASE DispatchExpired
    BY <2>1 DEF DispatchExpired, BufferInv, DueIsOver
  <2>2. CASE \E x \in Events : SubmitWithoutToken(x)
    BY <2>2 DEF SubmitWithoutToken
  <2>3. CASE \E x \in Events : FlushOne(x)
    BY <2>3 DEF FlushOne, BufferInv, HandsAgree
  <2>4. CASE UNCHANGED bare
    BY <2>4
  <2> QED BY <2>1, <2>2, <2>3, <2>4 DEF BufferNext, WorkerStep, LoopFinishes, bufferVars,
             SubmitDetection, ReceiveRecognition, TakeRecognized, DispatchAnnotated, ReadClock,
             TakeLock, ExpireEntry, ReleaseLock, Stop, FlushPending, BufferStopped, BufferTick
<1> QED BY <1>1, BufferAlways, PTL DEF BufferSpec, NoEarlyTimeout

-----------------------------------------------------------------------------
(* What the buffer does to the fates of the events.                         *)

\* An event that is held has the fate "held".
LEMMA HeldFate ==
    ASSUME BufferInv, NEW e \in Events, Held(e)
    PROVE  FateOf(e) = "held"
BY DEF BufferInv, HeldIsOpen, OnceOnly, FateOf

\* Nothing but the four histories decides a fate.
LEMMA SameFates ==
    ASSUME UNCHANGED <<submitted, replaced, annotated, bare>>
    PROVE  \A e \in Events : FateOf(e)' = FateOf(e)
BY DEF FateOf

LEMMA SubmitRefines ==
    ASSUME BufferAssumption, BufferInv, NEW e \in Events, SubmitDetection(e)
    PROVE  Promise!Hold(e)
<1> DEFINE Over == {pending[TokenOf[e]]} \ {NoEvent}
<1>1. TokenOf[e] \in Tokens /\ Over \subseteq Events
  BY DEF BufferAssumption, BufferInv, BufferTypeOK, SubmitDetection
<1>2. \A x \in Over : Held(x) /\ SameToken(x, e)
  BY <1>1 DEF Held, IsPending, SameToken, BufferInv, TokenLeads, SubmitDetection
<1>3. \A x \in Over : x # e /\ FateOf(x) = "held"
  BY <1>1, <1>2, HeldFate DEF BufferInv, HeldIsOpen, SubmitDetection
<1>4. FateOf(e) = "new"
  BY DEF BufferInv, OnceOnly, SubmitDetection, FateOf
<1>5. /\ submitted' = submitted \cup {e} /\ replaced' = replaced \cup Over
      /\ annotated' = annotated /\ bare' = bare
  BY DEF SubmitDetection
<1>6. ASSUME NEW x \in Events
      PROVE  FateOf(x)' = IF x = e THEN "held" ELSE IF x \in Over THEN "replaced" ELSE FateOf(x)
  <2>1. CASE x = e
    BY <1>3, <1>4, <1>5, <2>1 DEF FateOf
  <2>2. CASE x # e
    BY <1>3, <1>5, <2>2 DEF FateOf
  <2> QED BY <2>1, <2>2
<1> HIDE DEF Over
<1>7. Over \in SUBSET {x \in Events : FateOf(x) = "held" /\ SameToken(x, e)}
  BY <1>1, <1>2, <1>3
<1> QED BY <1>4, <1>6, <1>7 DEF Promise!Hold

\* Handing e on with a recognition or without.
LEMMA HandOnRefines ==
    ASSUME BufferInv, NEW e \in Events, InHand(e), UNCHANGED <<submitted, replaced>>,
           \/ annotated' = annotated \cup {e} /\ bare' = bare
           \/ bare' = bare \cup {e} /\ annotated' = annotated
    PROVE  Promise!HandOn(e)
<1>1. FateOf(e) = "held"
  BY HeldFate DEF Held
<1>2. FateOf(e)' \in {"annotated", "bare"}
  BY <1>1 DEF FateOf
<1>3. \A x \in Events \ {e} : FateOf(x)' = FateOf(x)
  BY DEF FateOf
<1>4. [x \in Events |-> FateOf(x)'] = [[x \in Events |-> FateOf(x)] EXCEPT ![e] = FateOf(e)']
  BY <1>3
<1> QED BY <1>1, <1>2, <1>4 DEF Promise!HandOn

LEMMA BypassRefines ==
    ASSUME BufferInv, NEW e \in Events, SubmitWithoutToken(e)
    PROVE  Promise!Bypass(e)
<1>1. FateOf(e) = "new" /\ FateOf(e)' = "bare"
  BY DEF BufferInv, OnceOnly, SubmitWithoutToken, FateOf
<1>2. \A x \in Events \ {e} : FateOf(x)' = FateOf(x)
  BY DEF FateOf, SubmitWithoutToken
<1> QED BY <1>1, <1>2 DEF Promise!Bypass

\* The buffer implements Coalescing, for any events, tokens and window: its
\* threads, its lock, its heap and its clock add nothing to what becomes of an
\* event.
THEOREM BufferRefines == BufferSpec => ImplementsCoalescing
<1> DEFINE fates == [e \in Events |-> FateOf(e)]
<1>1. BufferInit => Promise!AbsInit
  BY DEF BufferInit, Promise!AbsInit, FateOf
<1>2. BufferInv /\ [BufferNext]_bufferVars => [Promise!AbsNext]_fates
  <2> SUFFICES ASSUME BufferInv, [BufferNext]_bufferVars
               PROVE  Promise!AbsNext \/ UNCHANGED fates
    OBVIOUS
  <2>1. ASSUME NEW e \in Events, SubmitDetection(e) PROVE Promise!AbsNext
    BY <2>1, BufferAssumption, SubmitRefines DEF Promise!AbsNext
  <2>2. ASSUME NEW e \in Events, SubmitWithoutToken(e) PROVE Promise!AbsNext
    BY <2>2, BypassRefines DEF Promise!AbsNext
  <2>3. ASSUME DispatchAnnotated PROVE Promise!AbsNext
    <3>1. loop.event \in Events /\ InHand(loop.event)
      BY <2>3, BufferAssumption DEF DispatchAnnotated, InHand, BufferInv, BufferTypeOK, HandsAgree
    <3> QED BY <2>3, <3>1, HandOnRefines DEF DispatchAnnotated, Promise!AbsNext
  <2>4. ASSUME DispatchExpired PROVE Promise!AbsNext
    <3>1. worker.event \in Events /\ InHand(worker.event)
      BY <2>4, BufferAssumption DEF DispatchExpired, InHand, BufferInv, BufferTypeOK, HandsAgree
    <3> QED BY <2>4, <3>1, HandOnRefines DEF DispatchExpired, Promise!AbsNext
  <2>5. ASSUME NEW e \in Events, FlushOne(e) PROVE Promise!AbsNext
    BY <2>5, HandOnRefines DEF FlushOne, InHand, Promise!AbsNext
  <2>6. CASE UNCHANGED <<submitted, replaced, annotated, bare>>
    BY <2>6, SameFates
  <2> QED BY <2>1, <2>2, <2>3, <2>4, <2>5, <2>6 DEF BufferNext, WorkerStep, LoopFinishes, bufferVars,
             ReceiveRecognition, TakeRecognized, ReadClock, TakeLock, ExpireEntry, ReleaseLock,
             Stop, FlushPending, BufferStopped, BufferTick
<1> QED BY <1>1, <1>2, BufferAlways, PTL DEF BufferSpec, ImplementsCoalescing, Promise!AbsSpec

-----------------------------------------------------------------------------
(* The presses of a doorbell.                                              *)

FlushPlaces == {"stopped", "head", "send", "wait", "discard"}
FlushType == [Flushers -> [at : FlushPlaces, press : Presses \cup {NoPress}, attempt : 0 .. MaxRetries]]
RequestType == [Slots -> [press : Presses, stage : Host!Stages] \cup {NoRequest}]

\* The types, with the names of this module.
PressTyped ==
    /\ up \in BOOLEAN /\ pressed \in 0 .. NumPresses
    /\ pressQueue \in Seq(Presses) /\ Len(pressQueue) <= QueueMax
    /\ disk = Torn \/ (disk \in Seq(Presses) /\ Len(disk) <= QueueMax)
    /\ saved \in BOOLEAN
    /\ flush \in FlushType
    /\ request \in RequestType
    /\ rows \in [Presses -> 0 .. 2] /\ published \in [Presses -> 0 .. 2]
    /\ paired \in BOOLEAN /\ redisUp \in BOOLEAN
    /\ gone \subseteq Presses /\ faults \in 0 .. MaxFaults

\* Presses that have their row, that are published, and whose older ones have
\* their row or have been given up, so that it is their turn.
HasRow == {p \in Presses : rows[p] > 0}
IsOut == {p \in Presses : published[p] > 0}
InTurn == {p \in Presses : 1 .. p - 1 \subseteq HasRow \cup gone}

\* A queue of presses, oldest first, all of them pushed.
InOrder(q) ==
    /\ \A i \in 1 .. Len(q) : q[i] \in 1 .. pressed
    /\ \A i, j \in 1 .. Len(q) : i < j => q[i] < q[j]

OnPi == ToSet(IF up THEN pressQueue ELSE disk)

QueuesAgree ==
    /\ pressed >= NumLeft
    /\ InOrder(pressQueue)
    /\ disk # Torn => InOrder(disk)
    /\ up /\ saved => disk = pressQueue
    /\ 1 .. pressed \subseteq OnPi \cup IsOut \cup gone

Posting == {"send", "wait", "discard"}

\* A thread has a press in hand whose turn it was, and goes on to discard it
\* only when it is published or refused.
ThreadsAgree ==
    \A f \in Flushers :
        /\ ~up \/ f > pressed => flush[f].at = "stopped"
        /\ flush[f].at \in Posting => flush[f].press \in InTurn \cap 1 .. pressed
        /\ flush[f].at = "discard" => flush[f].press \in IsOut \cup gone

\* A request is for a press whose turn it was, and a thread waits for the answer
\* to its own.
RequestsAgree ==
    \A s \in Slots : request[s] # NoRequest =>
        /\ request[s].press \in InTurn \cap 1 .. pressed
        /\ request[s].stage = "stored" => request[s].press \in HasRow
        /\ request[s].stage = "202" => request[s].press \in IsOut

AnswersAwaited ==
    \A f \in Flushers : request[Live(f)] # NoRequest =>
        flush[f].at = "wait" /\ request[Live(f)].press = flush[f].press

RowsAgree == IsOut \subseteq HasRow /\ HasRow \subseteq InTurn

PressInv ==
    PressTyped /\ QueuesAgree /\ ThreadsAgree /\ RequestsAgree /\ AnswersAwaited /\ RowsAgree

\* A thread goes on, and no other one does.
LEMMA GotoEffect ==
    ASSUME flush \in FlushType, NEW f \in Flushers, NEW place \in FlushPlaces,
           NEW p \in Presses \cup {NoPress}, NEW a \in 0 .. MaxRetries, Goto(f, place, p, a)
    PROVE  /\ flush' \in FlushType
           /\ flush'[f] = [at |-> place, press |-> p, attempt |-> a]
           /\ \A g \in Flushers \ {f} : flush'[g] = flush[g]
BY DEF Goto, FlushType

LEMMA StopEffect ==
    ASSUME flush \in FlushType, MaxRetries \in Nat, NEW f \in Flushers,
           flush' = [flush EXCEPT ![f] = Stopped]
    PROVE  /\ flush' \in FlushType
           /\ flush'[f] = Stopped
           /\ \A g \in Flushers \ {f} : flush'[g] = flush[g]
BY DEF FlushType, FlushPlaces, Stopped

\* A handler goes on, and no other one does.
LEMMA ReachEffect ==
    ASSUME request \in RequestType, NEW s \in Slots, NEW stage \in Host!Stages,
           request[s] # NoRequest, Host!Reach(s, stage)
    PROVE  /\ request' \in RequestType
           /\ request'[s] = [press |-> request[s].press, stage |-> stage]
           /\ \A r \in Slots \ {s} : request'[r] = request[r]
BY DEF Host!Reach, RequestType

LEMMA PressTypes == PressTyped <=> PressTypeOK
BY DEF PressTyped, PressTypeOK, QueueTypeOK, Host!HandlerTypeOK, FlushType, FlushPlaces, RequestType,
       Host!Many

\* A full queue gives up its oldest press and no other one.
LEMMA AppendPressEffect ==
    ASSUME NEW q \in Seq(Presses), Len(q) <= QueueMax, NEW p \in Presses, QueueMax \in Nat \ {0}
    PROVE  /\ AppendPress(q, p) \in Seq(Presses)
           /\ Len(AppendPress(q, p)) \in 1 .. QueueMax
           /\ \E k \in {0, 1} :
                /\ Len(AppendPress(q, p)) = Len(q) + 1 - k
                /\ \A i \in 1 .. Len(q) + 1 - k :
                      AppendPress(q, p)[i] = IF i = Len(q) + 1 - k THEN p ELSE q[i + k]
<1> DEFINE r == Append(q, p)
<1>1. /\ r \in Seq(Presses) /\ Len(r) = Len(q) + 1 /\ Len(q) \in Nat /\ r # <<>>
      /\ \A i \in 1 .. Len(q) + 1 : r[i] = IF i = Len(q) + 1 THEN p ELSE q[i]
  BY LenProperties
<1>2. CASE Len(r) > QueueMax
  <2>1. AppendPress(q, p) = Tail(r)
    BY <1>2 DEF AppendPress, Bounded
  <2>2. /\ Tail(r) \in Seq(Presses) /\ Len(Tail(r)) = Len(r) - 1
        /\ \A i \in 1 .. Len(Tail(r)) : Tail(r)[i] = r[i + 1]
    BY <1>1, HeadTailProperties
  <2> QED BY <1>1, <1>2, <2>1, <2>2
<1>3. CASE ~(Len(r) > QueueMax)
  <2>1. AppendPress(q, p) = r
    BY <1>3 DEF AppendPress, Bounded
  <2> QED BY <1>1, <1>3, <2>1
<1> QED BY <1>2, <1>3

LEMMA SaveEffect ==
    ASSUME NEW q \in Seq(Presses), Len(q) <= QueueMax,
           disk = Torn \/ (disk \in Seq(Presses) /\ Len(disk) <= QueueMax),
           NEW result \in SaveResults, SaveQueue(q, result)
    PROVE  /\ saved' \in BOOLEAN
           /\ disk' = Torn \/ (disk' \in Seq(Presses) /\ Len(disk') <= QueueMax)
           /\ disk' \in {q, disk, Torn}
           /\ saved' => disk' = q
BY DEF SaveQueue, SaveResults


LEMMA SetsKept ==
    ASSUME UNCHANGED <<rows, published, gone>>
    PROVE  HasRow' = HasRow /\ IsOut' = IsOut /\ InTurn' = InTurn
BY DEF HasRow, IsOut, InTurn

LEMMA QueuesKept ==
    ASSUME QueuesAgree, UNCHANGED <<up, pressed, pressQueue, disk, saved>>,
           IsOut \subseteq IsOut', gone \subseteq gone'
    PROVE  QueuesAgree'
BY DEF QueuesAgree, OnPi, InOrder

LEMMA PressStep ==
    ASSUME PressQueueAssumption, FaultsAssumption, PressInv, [PressNext]_pressVars
    PROVE  PressInv'
<1> USE DEF PressInv
<1>1. ASSUME Push PROVE PressInv'
  <2>1. PICK result \in SaveResults : OnPress(result) /\ Charge(result)
    BY <1>1 DEF Push
  <2>2. pressed' = pressed + 1 /\ pressed' \in Presses /\ pressed' \in Flushers /\ up /\ up'
    BY <2>1 DEF OnPress, Presses, Flushers, QueuesAgree, PressQueueAssumption, PressTyped
  <2>3. pressQueue' \in Seq(Presses) /\ Len(pressQueue') <= QueueMax
    BY <2>1, <2>2, AppendPressEffect DEF OnPress, PressQueueAssumption, PressTyped
  <2>4. /\ saved' \in BOOLEAN
        /\ disk' = Torn \/ (disk' \in Seq(Presses) /\ Len(disk') <= QueueMax)
        /\ disk' \in {pressQueue', disk, Torn}
        /\ saved' => disk' = pressQueue'
    BY <2>1, <2>3, SaveEffect DEF OnPress, PressTyped
  <2>5. /\ flush' \in FlushType
        /\ flush'[pressed'] = [at |-> "head", press |-> NoPress, attempt |-> 0]
        /\ \A g \in Flushers \ {pressed'} : flush'[g] = flush[g]
    <3>1. Goto(pressed', "head", NoPress, 0) /\ "head" \in FlushPlaces /\ 0 \in 0 .. MaxRetries
      BY <2>1 DEF OnPress, FlushPlaces, PressQueueAssumption
    <3>2. PICK f \in Flushers : f = pressed'
      BY <2>2
    <3>3. flush \in FlushType /\ Goto(f, "head", NoPress, 0)
      BY <3>1, <3>2 DEF PressTyped, Goto
    <3> QED BY <3>1, <3>2, <3>3, GotoEffect
  <2>6. faults' \in 0 .. MaxFaults
    BY <2>1 DEF Charge, NoFault, Fault, FaultsAssumption, PressTyped
  <2>7. UNCHANGED hostVars /\ gone' = gone \cup (ToSet(pressQueue) \ ToSet(pressQueue'))
    BY <1>1 DEF Push
  <2>8. gone' \subseteq Presses /\ ToSet(pressQueue) \subseteq Presses
    BY <2>7, ElementOfSeq, LenProperties DEF ToSet, PressTyped
  <2>9. HasRow' = HasRow /\ IsOut' = IsOut /\ InTurn \subseteq InTurn' /\ gone \subseteq gone'
    BY <2>7 DEF HasRow, IsOut, InTurn, hostVars
  <2>10. PressTyped'
    BY <2>2, <2>3, <2>4, <2>5, <2>6, <2>7, <2>8 DEF PressTyped, hostVars, Presses
  <2>11. InOrder(pressQueue)' /\ pressed' \in ToSet(pressQueue')
    <3>1. pressQueue' = AppendPress(pressQueue, pressed')
      BY <2>1 DEF OnPress
    <3>2. PICK k \in {0, 1} :
                /\ Len(pressQueue') = Len(pressQueue) + 1 - k
                /\ \A i \in 1 .. Len(pressQueue) + 1 - k :
                      pressQueue'[i] = IF i = Len(pressQueue) + 1 - k THEN pressed' ELSE pressQueue[i + k]
      BY <3>1, <2>2, AppendPressEffect DEF PressTyped, PressQueueAssumption
    <3>3. Len(pressQueue) \in Nat /\ Len(pressQueue') >= 1
      BY <3>1, <2>2, AppendPressEffect, LenProperties DEF PressTyped, PressQueueAssumption
    <3>4. InOrder(pressQueue)'
      <4>1. /\ pressed \in Nat /\ pressed' = pressed + 1
            /\ \A i \in 1 .. Len(pressQueue) : pressQueue[i] \in 1 .. pressed
            /\ \A i, j \in 1 .. Len(pressQueue) : i < j => pressQueue[i] < pressQueue[j]
        BY <2>2 DEF QueuesAgree, InOrder, PressTyped
      <4>2. \A i \in 1 .. Len(pressQueue') : pressQueue'[i] \in 1 .. pressed'
        BY <3>2, <3>3, <4>1
      <4>3. ASSUME NEW i \in 1 .. Len(pressQueue'), NEW j \in 1 .. Len(pressQueue'), i < j
            PROVE  pressQueue'[i] < pressQueue'[j]
        <5>1. pressQueue'[i] = pressQueue[i + k] /\ i + k \in 1 .. Len(pressQueue)
          BY <3>2, <3>3, <4>3
        <5>2. CASE j = Len(pressQueue')
          BY <3>2, <3>3, <4>1, <5>1, <5>2
        <5>3. CASE j # Len(pressQueue')
          <6>1. pressQueue'[j] = pressQueue[j + k] /\ j + k \in 1 .. Len(pressQueue)
            BY <3>2, <3>3, <5>3
          <6> QED BY <4>1, <4>3, <5>1, <6>1
        <5> QED BY <5>2, <5>3
      <4> QED BY <4>2, <4>3 DEF InOrder
    <3>5. pressQueue'[Len(pressQueue')] = pressed'
      BY <3>2, <3>3
    <3>6. Len(pressQueue') \in DOMAIN pressQueue'
      BY <2>3, <3>3, LenProperties
    <3> QED BY <3>4, <3>5, <3>6 DEF ToSet
  <2>12. QueuesAgree'
    <3>1. 1 .. pressed \subseteq 1 .. pressed'
      BY <2>2 DEF PressTyped
    <3>2. disk' # Torn => InOrder(disk)'
      <4>1. CASE disk' = pressQueue'
        BY <2>11, <4>1 DEF InOrder
      <4>2. CASE disk' = disk /\ disk # Torn
        BY <3>1, <4>2 DEF QueuesAgree, InOrder
      <4> QED BY <2>4, <4>1, <4>2
    <3>3. ToSet(pressQueue) \cup {pressed'} \subseteq ToSet(pressQueue') \cup gone'
      BY <2>7, <2>11
    <3>4. 1 .. pressed' = 1 .. pressed \cup {pressed'}
      BY <2>2 DEF PressTyped
    <3>5. (1 .. pressed \subseteq OnPi \cup IsOut \cup gone) /\ OnPi = ToSet(pressQueue) /\ OnPi' = ToSet(pressQueue')
      BY <2>2 DEF QueuesAgree, OnPi
    <3> QED BY <2>2, <2>4, <2>9, <2>11, <3>2, <3>3, <3>4, <3>5 DEF QueuesAgree, PressTyped
  <2>13. ThreadsAgree'
    BY <2>2, <2>5, <2>9 DEF ThreadsAgree, Posting, PressTyped
  <2>14. RequestsAgree'
    BY <2>2, <2>7, <2>9 DEF RequestsAgree, hostVars, PressTyped
  <2>15. AnswersAwaited'
    BY <2>2, <2>5, <2>7 DEF AnswersAwaited, ThreadsAgree, hostVars, PressTyped
  <2> QED BY <2>9, <2>10, <2>12, <2>13, <2>14, <2>15 DEF RowsAgree
<1>2. ASSUME Flush PROVE PressInv'
  <2>0. 0 \in Flushers /\ 0 \in 0 .. MaxRetries /\ NumLeft \in Nat
    BY DEF Flushers, PressQueueAssumption
  <2>1. Goto(0, "head", NoPress, 0) /\ flush[0] = Stopped /\ up
    BY <1>2 DEF Flush, PeriodicFlush
  <2>2. /\ flush' \in FlushType
        /\ flush'[0] = [at |-> "head", press |-> NoPress, attempt |-> 0]
        /\ \A g \in Flushers \ {0} : flush'[g] = flush[g]
    BY <2>0, <2>1, GotoEffect DEF PressTyped, FlushPlaces
  <2>3. UNCHANGED <<up, pressed, pressQueue, disk, saved, hostVars, gone, faults>>
    BY <1>2 DEF Flush, PeriodicFlush, NoFault
  <2>4. UNCHANGED <<rows, published, request, HasRow, IsOut, InTurn>>
    BY <2>3, SetsKept DEF hostVars
  <2>5. PressTyped' /\ QueuesAgree'
    BY <2>2, <2>3, <2>4, QueuesKept DEF PressTyped, hostVars
  <2>6. ThreadsAgree' /\ RequestsAgree' /\ RowsAgree'
    BY <2>1, <2>2, <2>3, <2>4 DEF ThreadsAgree, RequestsAgree, RowsAgree, Posting, PressTyped
  <2>7. AnswersAwaited'
    BY <2>1, <2>2, <2>4 DEF AnswersAwaited, Stopped
  <2> QED BY <2>5, <2>6, <2>7
<1>3. ASSUME NEW f \in Flushers, Look(f) PROVE PressInv'
  <2>0. flush[f].at = "head" /\ up
    BY <1>3 DEF Look, TakeHead, ThreadsAgree, PressTyped
  <2>1. /\ flush' \in FlushType
        /\ \/ flush'[f] = Stopped
           \/ pressQueue # <<>> /\ flush'[f] = [at |-> "send", press |-> Head(pressQueue), attempt |-> 1]
        /\ \A g \in Flushers \ {f} : flush'[g] = flush[g]
    <3>1. CASE pressQueue = <<>>
      BY <1>3, <3>1, StopEffect DEF Look, TakeHead, PressTyped, PressQueueAssumption
    <3>2. CASE pressQueue # <<>>
      BY <1>3, <3>2, GotoEffect, HeadTailProperties
         DEF Look, TakeHead, PressTyped, FlushPlaces, PressQueueAssumption
    <3> QED BY <3>1, <3>2
  <2>2. UNCHANGED <<up, pressed, pressQueue, disk, saved, hostVars, gone, faults>>
    BY <1>3 DEF Look, TakeHead, NoFault
  <2>3. UNCHANGED <<rows, published, request, HasRow, IsOut, InTurn>>
    BY <2>2, SetsKept DEF hostVars
  <2>4. ASSUME pressQueue # <<>> PROVE Head(pressQueue) \in InTurn \cap 1 .. pressed
    <3>1. Len(pressQueue) \in Nat \ {0} /\ Head(pressQueue) = pressQueue[1] /\ DOMAIN pressQueue = 1 .. Len(pressQueue)
      BY <2>4, TailEffect DEF PressTyped
    <3>2. pressQueue[1] \in 1 .. pressed /\ pressQueue[1] \in Presses
      BY <3>1 DEF QueuesAgree, InOrder, PressTyped, Presses
    <3>3. \A i \in 1 .. Len(pressQueue) : pressQueue[i] \in Int /\ pressQueue[i] >= pressQueue[1]
      BY <3>1 DEF QueuesAgree, InOrder, PressTyped
    <3>4. \A p \in ToSet(pressQueue) : p >= pressQueue[1]
      BY <3>1, <3>3 DEF ToSet
    <3>5. 1 .. pressed \subseteq ToSet(pressQueue) \cup IsOut \cup gone
      BY <2>0 DEF QueuesAgree, OnPi
    <3>6. \A p \in 1 .. pressQueue[1] - 1 : p \in 1 .. pressed /\ ~(p >= pressQueue[1])
      BY <3>2 DEF PressTyped
    <3>7. 1 .. pressQueue[1] - 1 \subseteq HasRow \cup gone
      BY <3>4, <3>5, <3>6 DEF RowsAgree
    <3> QED BY <3>1, <3>2, <3>7 DEF InTurn
  <2>5. PressTyped' /\ QueuesAgree'
    BY <2>1, <2>2, <2>3, QueuesKept DEF PressTyped, hostVars
  <2>6. ThreadsAgree'
    BY <2>0, <2>1, <2>2, <2>3, <2>4 DEF ThreadsAgree, Posting, Stopped
  <2>7. RequestsAgree' /\ RowsAgree'
    BY <2>2, <2>3 DEF RequestsAgree, RowsAgree
  <2>8. AnswersAwaited'
    BY <2>0, <2>1, <2>3 DEF AnswersAwaited
  <2> QED BY <2>5, <2>6, <2>7, <2>8
<1>4. ASSUME NEW f \in Flushers, Post(f) PROVE PressInv'
  <2>0. flush[f].at = "send" /\ flush[f].press \in Presses \cap InTurn /\ flush[f].press \in 1 .. pressed
    BY <1>4 DEF Post, Send, ThreadsAgree, Posting, PressTyped, Presses, InTurn
  <2>1. /\ flush' \in FlushType
        /\ flush'[f] = [at |-> "wait", press |-> flush[f].press, attempt |-> flush[f].attempt]
        /\ \A g \in Flushers \ {f} : flush'[g] = flush[g]
    BY <1>4, GotoEffect DEF Post, Send, PressTyped, FlushPlaces, FlushType
  <2>2. UNCHANGED <<up, pressed, pressQueue, disk, saved, rows, published, paired, redisUp, gone, faults>>
    BY <1>4 DEF Post, Send, NoFault
  <2>3. UNCHANGED <<HasRow, IsOut, InTurn>>
    BY <2>2, SetsKept
  <2>4. /\ request' \in RequestType
        /\ request'[Live(f)] = [press |-> flush[f].press, stage |-> "arrived"]
        /\ \A r \in Slots \ {Live(f)} : request'[r] = request[r]
    BY <1>4, <2>0 DEF Post, RequestType, Live, Slots, Asks, PressTyped, Host!Stages
  <2>5. PressTyped' /\ QueuesAgree'
    BY <2>1, <2>2, <2>3, <2>4, QueuesKept DEF PressTyped
  <2>6. ThreadsAgree'
    BY <2>0, <2>1, <2>2, <2>3 DEF ThreadsAgree, Posting
  <2>7. RequestsAgree' /\ RowsAgree'
    BY <2>0, <2>2, <2>3, <2>4 DEF RequestsAgree, RowsAgree
  <2>8. AnswersAwaited'
    BY <2>0, <2>1, <2>4 DEF AnswersAwaited, Live, Slots
  <2> QED BY <2>5, <2>6, <2>7, <2>8
<1>5. ASSUME NEW f \in Flushers, ReadFinalAnswer(f) PROVE PressInv'
  <2>0. flush[f].at = "wait" /\ flush[f].press \in Presses \cap InTurn /\ flush[f].press \in 1 .. pressed
    BY <1>5 DEF ReadFinalAnswer, Answered, ThreadsAgree, Posting, PressTyped, Presses, InTurn
  <2>1. /\ flush' \in FlushType
        /\ flush'[f] = [at |-> "discard", press |-> flush[f].press, attempt |-> 0]
        /\ \A g \in Flushers \ {f} : flush'[g] = flush[g]
    BY <1>5, GotoEffect DEF ReadFinalAnswer, Answered, PressTyped, FlushPlaces, FlushType, PressQueueAssumption
  <2>2. UNCHANGED <<up, pressed, pressQueue, disk, saved, rows, published, paired, redisUp, faults>>
    BY <1>5 DEF ReadFinalAnswer, Answered, NoFault
  <2>3. /\ request' \in RequestType /\ request'[Live(f)] = NoRequest
        /\ \A r \in Slots \ {Live(f)} : request'[r] = request[r]
    BY <1>5 DEF ReadFinalAnswer, Forget, RequestType, Live, Slots, PressTyped
  <2>4. /\ gone' \in {gone, gone \cup {flush[f].press}}
        /\ flush[f].press \in IsOut \cup gone'
    <3>1. CASE Host!At(Live(f), "4xx")
      BY <1>5, <3>1 DEF ReadFinalAnswer
    <3>2. CASE Host!At(Live(f), "202") /\ ~Host!At(Live(f), "4xx")
      <4>1. request[Live(f)] # NoRequest /\ request[Live(f)].stage = "202" /\ Live(f) \in Slots
        BY <3>2 DEF Host!At, Live, Slots
      <4>2. request[Live(f)].press = flush[f].press /\ request[Live(f)].press \in IsOut
        BY <4>1 DEF RequestsAgree, AnswersAwaited
      <4> QED BY <1>5, <3>2, <4>2 DEF ReadFinalAnswer
    <3> QED BY <1>5, <3>1, <3>2 DEF ReadFinalAnswer
  <2>5. HasRow' = HasRow /\ IsOut' = IsOut /\ InTurn \subseteq InTurn' /\ gone \subseteq gone'
    BY <2>2, <2>4 DEF HasRow, IsOut, InTurn
  <2>6. PressTyped' /\ QueuesAgree'
    <3>1. gone' \subseteq Presses
      BY <2>0, <2>4 DEF PressTyped
    <3> QED BY <2>1, <2>2, <2>3, <2>5, <3>1, QueuesKept DEF PressTyped
  <2>7. ThreadsAgree'
    BY <2>0, <2>1, <2>2, <2>4, <2>5 DEF ThreadsAgree, Posting
  <2>8. RequestsAgree' /\ RowsAgree'
    BY <2>2, <2>3, <2>5 DEF RequestsAgree, RowsAgree
  <2>9. AnswersAwaited'
    BY <2>1, <2>3 DEF AnswersAwaited, Live, Slots
  <2> QED BY <2>6, <2>7, <2>8, <2>9
<1>6. ASSUME NEW f \in Flushers, ReadFailure(f) \/ TimeOut(f) PROVE PressInv'
  <2>0. /\ flush[f].at = "wait" /\ AttemptFails(f)
        /\ flush[f].press \in Presses \cap InTurn /\ flush[f].press \in 1 .. pressed
    BY <1>6 DEF ReadFailure, TimeOut, AttemptFails, ThreadsAgree, Posting, PressTyped, Presses, InTurn
  <2>1. /\ flush' \in FlushType
        /\ \/ flush'[f] = Stopped
           \/ flush'[f] = [at |-> "send", press |-> flush[f].press, attempt |-> flush[f].attempt + 1]
        /\ \A g \in Flushers \ {f} : flush'[g] = flush[g]
    <3>1. CASE flush[f].attempt < MaxRetries
      <4>1. flush[f].attempt + 1 \in 0 .. MaxRetries
        BY <3>1 DEF PressTyped, FlushType, PressQueueAssumption
      <4> QED BY <2>0, <3>1, <4>1, GotoEffect DEF AttemptFails, PressTyped, FlushPlaces
    <3>2. CASE ~(flush[f].attempt < MaxRetries)
      BY <2>0, <3>2, StopEffect DEF AttemptFails, PressTyped, PressQueueAssumption
    <3> QED BY <3>1, <3>2
  <2>2. /\ UNCHANGED <<up, pressed, pressQueue, disk, saved, rows, published, paired, redisUp, gone>>
        /\ faults' \in 0 .. MaxFaults
    BY <1>6, <2>0 DEF ReadFailure, TimeOut, AttemptFails, NoFault, Fault, PressTyped, FaultsAssumption
  <2>3. UNCHANGED <<HasRow, IsOut, InTurn>>
    BY <2>2, SetsKept
  <2>4. /\ request' \in RequestType /\ request'[Live(f)] = NoRequest
        /\ \A r \in Slots : request'[r] \in {NoRequest, request[r], request[Live(f)]}
        /\ \A g \in Flushers \ {f} : request'[Live(g)] = request[Live(g)]
    <3>0. /\ \A g \in Flushers : Live(g) \in Slots /\ Late(g) \in Slots
          /\ Late(f) # Live(f)
          /\ \A g \in Flushers \ {f} : Live(g) \notin {Live(f), Late(f)}
          /\ request \in RequestType
      BY DEF Live, Late, Slots, PressTyped
    <3>1. CASE ReadFailure(f)
      BY <3>0, <3>1 DEF ReadFailure, Forget, RequestType
    <3>2. CASE TimeOut(f)
      BY <3>0, <3>2 DEF TimeOut, RequestType
    <3> QED BY <1>6, <3>1, <3>2
  <2>5. PressTyped' /\ QueuesAgree'
    BY <2>1, <2>2, <2>3, <2>4, QueuesKept DEF PressTyped
  <2>6. ThreadsAgree'
    BY <2>0, <2>1, <2>2, <2>3 DEF ThreadsAgree, Posting, Stopped
  <2>7. RequestsAgree' /\ RowsAgree'
    <3>1. Live(f) \in Slots
      BY DEF Live, Slots
    <3> QED BY <2>2, <2>3, <2>4, <3>1 DEF RequestsAgree, RowsAgree
  <2>8. AnswersAwaited'
    BY <2>1, <2>4 DEF AnswersAwaited
  <2> QED BY <2>5, <2>6, <2>7, <2>8
<1>7. ASSUME NEW f \in Flushers, Pop(f) PROVE PressInv'
  <2>0. PICK result \in SaveResults : PopDelivered(f, result) /\ Charge(result)
    BY <1>7 DEF Pop
  <2>1. /\ flush' \in FlushType
        /\ flush'[f] = [at |-> "head", press |-> NoPress, attempt |-> 0]
        /\ \A g \in Flushers \ {f} : flush'[g] = flush[g]
    <3>1. Goto(f, "head", NoPress, 0) /\ 0 \in 0 .. MaxRetries
      BY <2>0 DEF PopDelivered, PressQueueAssumption
    <3> QED BY <3>1, GotoEffect DEF PressTyped, FlushPlaces
  <2>2. UNCHANGED <<up, pressed, hostVars, gone>> /\ faults' \in 0 .. MaxFaults
    BY <1>7, <2>0 DEF Pop, PopDelivered, Charge, NoFault, Fault, PressTyped, FaultsAssumption
  <2>3. UNCHANGED <<rows, published, request, HasRow, IsOut, InTurn>>
    BY <2>2, SetsKept DEF hostVars
  <2>4. flush[f].at = "discard" /\ flush[f].press \in IsOut \cup gone /\ up
    BY <2>0 DEF PopDelivered, ThreadsAgree, PressTyped
  <2>5. /\ pressQueue' \in Seq(Presses) /\ Len(pressQueue') <= QueueMax
        /\ InOrder(pressQueue)'
        /\ ToSet(pressQueue) \subseteq ToSet(pressQueue') \cup {flush[f].press}
    <3>1. CASE pressQueue # <<>> /\ Head(pressQueue) = flush[f].press
      <4>0. pressQueue' = Tail(pressQueue)
        BY <2>0, <3>1 DEF PopDelivered
      <4>1. /\ pressQueue' \in Seq(Presses) /\ DOMAIN pressQueue' = 1 .. Len(pressQueue) - 1
            /\ \A i \in 1 .. Len(pressQueue) - 1 : pressQueue'[i] = pressQueue[i + 1]
            /\ pressQueue[1] = flush[f].press
            /\ Len(pressQueue) \in Nat /\ 1 <= Len(pressQueue) /\ DOMAIN pressQueue = 1 .. Len(pressQueue)
        BY <3>1, <4>0, TailEffect DEF PressTyped
      <4>2. Len(pressQueue') = Len(pressQueue) - 1
        BY <3>1, <4>0, HeadTailProperties DEF PressTyped
      <4>3. InOrder(pressQueue)'
        <5>1. \A i \in 1 .. Len(pressQueue') :
                 i + 1 \in 1 .. Len(pressQueue) /\ pressQueue'[i] = pressQueue[i + 1]
          BY <4>1, <4>2
        <5>2. \A i \in 1 .. Len(pressQueue') : pressQueue'[i] \in 1 .. pressed'
          BY <2>2, <5>1 DEF QueuesAgree, InOrder
        <5>3. \A i, j \in 1 .. Len(pressQueue') : i < j => pressQueue'[i] < pressQueue'[j]
          BY <5>1 DEF QueuesAgree, InOrder
        <5> QED BY <5>2, <5>3 DEF InOrder
      <4>4. \A i \in DOMAIN pressQueue : i = 1 \/ (i - 1 \in DOMAIN pressQueue' /\ pressQueue[i] = pressQueue'[i - 1])
        BY <4>1, <4>2
      <4>5. ToSet(pressQueue) \subseteq ToSet(pressQueue') \cup {flush[f].press}
        BY <4>1, <4>4 DEF ToSet
      <4> QED BY <4>1, <4>2, <4>3, <4>5 DEF PressTyped, PressQueueAssumption
    <3>2. CASE ~(pressQueue # <<>> /\ Head(pressQueue) = flush[f].press)
      BY <2>0, <2>2, <3>2 DEF PopDelivered, QueuesAgree, InOrder, PressTyped
    <3> QED BY <3>1, <3>2
  <2>6. /\ saved' \in BOOLEAN
        /\ disk' = Torn \/ (disk' \in Seq(Presses) /\ Len(disk') <= QueueMax)
        /\ disk' \in {pressQueue', disk, Torn}
        /\ saved' => disk' = pressQueue'
    BY <2>0, <2>5, SaveEffect DEF PopDelivered, PressTyped
  <2>7. PressTyped'
    BY <2>1, <2>2, <2>5, <2>6 DEF PressTyped, hostVars
  <2>8. QueuesAgree'
    <3>1. disk' # Torn => InOrder(disk)'
      BY <2>2, <2>5, <2>6 DEF QueuesAgree, InOrder
    <3>2. OnPi = ToSet(pressQueue) /\ OnPi' = ToSet(pressQueue')
      BY <2>2, <2>4 DEF OnPi
    <3> QED BY <2>2, <2>3, <2>4, <2>5, <2>6, <3>1, <3>2 DEF QueuesAgree
  <2>9. ThreadsAgree'
    BY <2>1, <2>2, <2>3, <2>4 DEF ThreadsAgree, Posting
  <2>10. RequestsAgree' /\ RowsAgree'
    BY <2>2, <2>3 DEF RequestsAgree, RowsAgree
  <2>11. AnswersAwaited'
    BY <2>1, <2>3, <2>4 DEF AnswersAwaited
  <2> QED BY <2>7, <2>8, <2>9, <2>10, <2>11
<1>8. ASSUME UNCHANGED queueVars, UNCHANGED <<rows, published, gone>>,
             faults' \in 0 .. MaxFaults, paired' \in BOOLEAN, redisUp' \in BOOLEAN,
             request' \in RequestType,
             \A r \in Slots : \/ request'[r] \in {request[r], NoRequest}
                              \/ /\ request[r] # NoRequest
                                 /\ request'[r].press = request[r].press
                                 /\ request'[r].stage \in {"4xx", "500"}
      PROVE  PressInv'
  <2>1. UNCHANGED <<HasRow, IsOut, InTurn>>
    BY <1>8, SetsKept
  <2>2. PressTyped' /\ QueuesAgree'
    BY <1>8, <2>1, QueuesKept DEF PressTyped, queueVars
  <2>3. ThreadsAgree' /\ RequestsAgree' /\ RowsAgree'
    BY <1>8, <2>1 DEF ThreadsAgree, RequestsAgree, RowsAgree, queueVars
  <2>4. AnswersAwaited'
    BY <1>8 DEF AnswersAwaited, Live, Slots, queueVars
  <2> QED BY <2>2, <2>3, <2>4
<1>9. ASSUME NEW f \in Flushers, Lose(f) \/ DropLateAnswer(f) PROVE PressInv'
  <2>1. /\ UNCHANGED <<queueVars, rows, published, gone>>
        /\ faults' \in 0 .. MaxFaults /\ paired' \in BOOLEAN /\ redisUp' \in BOOLEAN
    BY <1>9 DEF Lose, DropLateAnswer, NoFault, Fault, PressTyped, FaultsAssumption
  <2>2. /\ request' \in RequestType
        /\ \A r \in Slots : request'[r] \in {request[r], NoRequest}
    BY <1>9 DEF Lose, DropLateAnswer, Forget, RequestType, Live, Late, Slots, PressTyped
  <2> QED BY <2>1, <2>2, <1>8
<1>10. ASSUME NEW s \in Slots, HandlerFails(s) \/ (Host!RejectPress(s) /\ HandlerStep(s)) PROVE PressInv'
  <2>1. /\ UNCHANGED <<queueVars, rows, published, gone>>
        /\ faults' \in 0 .. MaxFaults /\ paired' \in BOOLEAN /\ redisUp' \in BOOLEAN
    BY <1>10 DEF HandlerFails, Host!InsertRaises, Host!RejectPress, HandlerStep, NoFault, Fault, PressTyped, FaultsAssumption
  <2>2. request[s] # NoRequest /\ \E stage \in {"4xx", "500"} : Host!Reach(s, stage)
    BY <1>10 DEF HandlerFails, Host!InsertRaises, Host!RejectPress, HandlerStep, Host!At
  <2>3. /\ request' \in RequestType
        /\ request'[s].press = request[s].press /\ request'[s].stage \in {"4xx", "500"}
        /\ \A r \in Slots \ {s} : request'[r] = request[r]
    <3>1. request \in RequestType /\ {"4xx", "500"} \subseteq Host!Stages
      BY DEF Host!Stages, PressTyped
    <3>2. PICK stage \in {"4xx", "500"} : Host!Reach(s, stage)
      BY <2>2
    <3>3. /\ request' \in RequestType
          /\ request'[s] = [press |-> request[s].press, stage |-> stage]
          /\ \A r \in Slots \ {s} : request'[r] = request[r]
      BY <2>2, <3>1, <3>2, ReachEffect
    <3> QED BY <3>3
  <2> QED BY <2>1, <2>2, <2>3, <1>8
<1>11. ASSUME NEW s \in Slots, Host!InsertRow(s) /\ HandlerStep(s) PROVE PressInv'
  <2>1. UNCHANGED <<queueVars, published, paired, redisUp, gone, faults>>
    BY <1>11 DEF Host!InsertRow, HandlerStep, NoFault
  <2>2. /\ request' \in RequestType /\ request[s] # NoRequest
        /\ request'[s] = [press |-> request[s].press, stage |-> "stored"]
        /\ \A r \in Slots \ {s} : request'[r] = request[r]
    BY <1>11, ReachEffect DEF Host!InsertRow, Host!At, Host!Stages, PressTyped
  <2>3. request[s].press \in Presses \cap InTurn /\ request[s].press \in 1 .. pressed
    BY <2>2 DEF RequestsAgree, InTurn
  <2>4. /\ rows' \in [Presses -> 0 .. 2] /\ rows'[request[s].press] > 0
        /\ \A p \in Presses \ {request[s].press} : rows'[p] = rows[p]
    BY <1>11, <2>3, SMTT(20) DEF Host!InsertRow, Host!OneMore, Host!Many, PressTyped
  <2>5. HasRow' = HasRow \cup {request[s].press} /\ IsOut' = IsOut
    BY <2>1, <2>3, <2>4 DEF HasRow, IsOut
  <2>6. InTurn \subseteq InTurn'
    BY <2>1, <2>5 DEF InTurn
  <2>7. PressTyped' /\ QueuesAgree'
    BY <2>1, <2>2, <2>4, <2>5, QueuesKept DEF PressTyped, queueVars
  <2>8. ThreadsAgree' /\ RowsAgree'
    BY <2>1, <2>3, <2>5, <2>6 DEF ThreadsAgree, RowsAgree, queueVars
  <2>9. RequestsAgree'
    BY <2>1, <2>2, <2>3, <2>5, <2>6 DEF RequestsAgree, queueVars
  <2>10. AnswersAwaited'
    BY <2>1, <2>2 DEF AnswersAwaited, Live, Slots, queueVars
  <2> QED BY <2>7, <2>8, <2>9, <2>10
<1>12. ASSUME NEW s \in Slots, Host!Publish(s) /\ HandlerStep(s) PROVE PressInv'
  <2>1. UNCHANGED <<queueVars, rows, paired, redisUp, gone, faults>>
    BY <1>12 DEF Host!Publish, HandlerStep, NoFault
  <2>2. request[s] # NoRequest /\ request[s].press \in Presses \cap HasRow
    BY <1>12 DEF RequestsAgree, InTurn, Host!Publish, Host!At
  <2>3. PICK stage \in {"202", "500"} :
          /\ request' \in RequestType
          /\ request'[s] = [press |-> request[s].press, stage |-> stage]
          /\ \A r \in Slots \ {s} : request'[r] = request[r]
          /\ published' \in [Presses -> 0 .. 2]
          /\ stage = "202" => published'[request[s].press] > 0
          /\ stage = "500" => published'[request[s].press] = published[request[s].press]
          /\ \A p \in Presses \ {request[s].press} : published'[p] = published[p]
    <3>1. CASE redisUp
      <4>1. Host!Reach(s, "202") /\ "202" \in Host!Stages
        BY <1>12, <3>1 DEF Host!Publish, Host!Stages
      <4>2. /\ published' \in [Presses -> 0 .. 2] /\ published'[request[s].press] > 0
            /\ \A p \in Presses \ {request[s].press} : published'[p] = published[p]
        BY <1>12, <2>2, <3>1 DEF Host!Publish, PressTyped, Host!OneMore, Host!Many
      <4> QED BY <2>2, <4>1, <4>2, ReachEffect DEF PressTyped
    <3>2. CASE ~redisUp
      <4>1. Host!Reach(s, "500") /\ "500" \in Host!Stages /\ published' = published
        BY <1>12, <3>2 DEF Host!Publish, Host!Stages
      <4> QED BY <2>2, <4>1, ReachEffect DEF PressTyped
    <3> QED BY <3>1, <3>2
  <2>4. HasRow' = HasRow /\ InTurn' = InTurn
    BY <2>1 DEF HasRow, InTurn
  <2>5. /\ IsOut' \in {IsOut, IsOut \cup {request[s].press}}
        /\ stage = "202" => request[s].press \in IsOut'
        /\ IsOut \subseteq IsOut'
    <3>1. \A p \in Presses : published[p] > 0 => published'[p] > 0 \/ p = request[s].press
      BY <2>3
    <3>2. published[request[s].press] > 0 => published'[request[s].press] > 0
      BY <2>2, <2>3 DEF PressTyped
    <3> QED BY <2>2, <2>3, <3>1, <3>2 DEF IsOut, PressTyped
  <2>6. PressTyped' /\ QueuesAgree'
    BY <2>1, <2>3, <2>5, QueuesKept DEF PressTyped, queueVars
  <2>7. ThreadsAgree' /\ RowsAgree'
    BY <2>1, <2>2, <2>4, <2>5 DEF ThreadsAgree, RowsAgree, queueVars
  <2>8. RequestsAgree'
    BY <2>1, <2>2, <2>3, <2>4, <2>5 DEF RequestsAgree, queueVars
  <2>9. AnswersAwaited'
    BY <2>1, <2>2, <2>3 DEF AnswersAwaited, Live, Slots, queueVars
  <2> QED BY <2>6, <2>7, <2>8, <2>9
<1>13. ASSUME DeviceDies PROVE PressInv'
  <2>1. /\ UNCHANGED <<pressed, saved, rows, published, paired, redisUp>> /\ faults' \in 0 .. MaxFaults
        /\ up /\ up' = FALSE /\ pressQueue' = <<>> /\ disk' \in {disk, Torn}
        /\ gone' = gone \cup (ToSet(pressQueue) \ ToSet(disk'))
    BY <1>13 DEF DeviceDies, Die, Fault, PressTyped, FaultsAssumption
  <2>2. flush' \in FlushType /\ \A f \in Flushers : flush'[f] = Stopped
    BY <1>13 DEF DeviceDies, Die, PressTyped, FlushType, FlushPlaces, Stopped, PressQueueAssumption
  <2>3. \A f \in Flushers : Live(f) \in Slots /\ request'[Live(f)] = NoRequest
    BY <1>13 DEF DeviceDies, Slots, Live
  <2>4. \A s \in Slots : request'[s] = NoRequest \/ \E r \in Slots : request'[s] = request[r]
    BY <1>13, <2>3 DEF DeviceDies, Slots
  <2>5. request' \in RequestType
    <3>1. DOMAIN request' = Slots /\ request' = [s \in Slots |-> request'[s]]
      BY <1>13 DEF DeviceDies
    <3> QED BY <2>4, <3>1 DEF PressTyped, RequestType
  <2>6. gone' \subseteq Presses /\ ToSet(pressQueue) \subseteq Presses
    BY <2>1, ElementOfSeq, LenProperties DEF ToSet, PressTyped
  <2>7. HasRow' = HasRow /\ IsOut' = IsOut /\ InTurn \subseteq InTurn' /\ gone \subseteq gone'
    BY <2>1 DEF HasRow, IsOut, InTurn
  <2>8. <<>> \in Seq(Presses) /\ Len(<<>>) = 0
    BY EmptySeq
  <2>9. PressTyped'
    <3>1. pressQueue' \in Seq(Presses) /\ Len(pressQueue') <= QueueMax
      BY <2>1, <2>8 DEF PressQueueAssumption
    <3>2. disk' = Torn \/ (disk' \in Seq(Presses) /\ Len(disk') <= QueueMax)
      BY <2>1 DEF PressTyped
    <3> QED BY <2>1, <2>2, <2>5, <2>6, <3>1, <3>2 DEF PressTyped
  <2>10. QueuesAgree'
    <3>1. OnPi = ToSet(pressQueue) /\ OnPi' = ToSet(disk')
      BY <2>1 DEF OnPi
    <3> QED BY <2>1, <2>7, <2>8, <3>1 DEF QueuesAgree, InOrder
  <2>11. ThreadsAgree'
    BY <2>2 DEF ThreadsAgree, Posting, Stopped
  <2>12. RequestsAgree' /\ AnswersAwaited' /\ RowsAgree'
    BY <2>1, <2>3, <2>4, <2>7 DEF RequestsAgree, AnswersAwaited, RowsAgree
  <2> QED BY <2>9, <2>10, <2>11, <2>12
<1>14. ASSUME DeviceRestarts PROVE PressInv'
  <2>1. /\ ~up /\ up' = TRUE /\ saved' = (disk # Torn)
        /\ pressQueue' = IF disk = Torn THEN <<>> ELSE disk
        /\ UNCHANGED <<pressed, disk, flush, hostVars, gone, faults>>
    BY <1>14 DEF DeviceRestarts, Restart, NoFault
  <2>2. <<>> \in Seq(Presses) /\ Len(<<>>) = 0
    BY EmptySeq
  <2>3. UNCHANGED <<rows, published, request, HasRow, IsOut, InTurn>>
    BY <2>1, SetsKept DEF hostVars
  <2>4. PressTyped'
    BY <2>1, <2>2 DEF PressTyped, hostVars, PressQueueAssumption
  <2>5. QueuesAgree'
    <3>1. CASE disk = Torn
      <4>1. ToSet(disk) = {0} /\ 0 \notin 1 .. pressed
        BY <3>1 DEF Torn, NoPress, ToSet, PressTyped
      <4>2. 1 .. pressed \subseteq IsOut \cup gone
        BY <2>1, <4>1 DEF QueuesAgree, OnPi
      <4>3. InOrder(pressQueue)'
        BY <2>1, <2>2, <3>1 DEF InOrder
      <4> QED BY <2>1, <2>3, <3>1, <4>2, <4>3 DEF QueuesAgree
    <3>2. CASE disk # Torn
      BY <2>1, <2>3, <3>2 DEF QueuesAgree, InOrder, OnPi
    <3> QED BY <3>1, <3>2
  <2>6. ThreadsAgree' /\ RequestsAgree' /\ AnswersAwaited' /\ RowsAgree'
    BY <2>1, <2>3 DEF ThreadsAgree, RequestsAgree, AnswersAwaited, RowsAgree
  <2> QED BY <2>4, <2>5, <2>6
<1>15. ASSUME HostFault \/ RedisIsRestarted \/ DeviceIsPaired PROVE PressInv'
  <2>0. faults' \in 0 .. MaxFaults
    BY <1>15 DEF HostFault, RedisIsRestarted, DeviceIsPaired, NoFault, Fault, PressTyped, FaultsAssumption
  <2>1. /\ UNCHANGED <<queueVars, rows, published, gone>>
        /\ paired' \in BOOLEAN /\ redisUp' \in BOOLEAN
    BY <1>15 DEF HostFault, RedisIsRestarted, DeviceIsPaired, Host!WebCrash, Host!RedisFails, Host!Unpair,
           Host!RedisReturns, Host!Pair, NoFault, Fault, PressTyped, FaultsAssumption
  <2>2. request' \in {request, [s \in Slots |-> NoRequest]}
    BY <1>15 DEF HostFault, RedisIsRestarted, DeviceIsPaired, Host!WebCrash, Host!RedisFails, Host!Unpair,
           Host!RedisReturns, Host!Pair
  <2>3. request' \in RequestType /\ \A r \in Slots : request'[r] \in {request[r], NoRequest}
    BY <2>2 DEF RequestType, PressTyped
  <2> QED BY <2>0, <2>1, <2>3, <1>8
<1>16. ASSUME UNCHANGED pressVars PROVE PressInv'
  BY <1>16, <1>8 DEF pressVars, hostVars, PressTyped
<1> QED BY <1>1, <1>2, <1>3, <1>4, <1>5, <1>6, <1>7, <1>9, <1>10, <1>11, <1>12, <1>13, <1>14, <1>15, <1>16
        DEF PressNext, ClientStep, HandlerStep, Host!Handle

LEMMA PressInitially == ASSUME PressQueueAssumption, FaultsAssumption, PressInit PROVE PressInv
<1> USE DEF PressQueueAssumption, FaultsAssumption, PressInit, QueueInit, Host!HandlerInit
<1>1. pressQueue \in Seq(Presses) /\ Len(pressQueue) = NumLeft /\ DOMAIN pressQueue = 1 .. NumLeft
  <2>1. \A i \in 1 .. NumLeft : i \in Presses
    BY DEF Presses
  <2> QED BY <2>1
<1>2. \A i \in 1 .. NumLeft : pressQueue[i] = i
  OBVIOUS
<1>3. PressTyped
  <2>1. flush \in FlushType /\ request \in RequestType
    BY DEF FlushType, FlushPlaces, Stopped, RequestType
  <2> QED BY <1>1, <2>1 DEF PressTyped
<1>4. ToSet(pressQueue) = 1 .. NumLeft
  BY <1>1, <1>2 DEF ToSet
<1>5. QueuesAgree
  BY <1>1, <1>2, <1>4 DEF QueuesAgree, InOrder, OnPi
<1>6. ThreadsAgree /\ RequestsAgree /\ AnswersAwaited
  BY DEF ThreadsAgree, RequestsAgree, AnswersAwaited, Stopped, Posting, Live, Slots
<1>7. RowsAgree
  BY DEF RowsAgree, HasRow, IsOut
<1> QED BY <1>3, <1>5, <1>6, <1>7 DEF PressInv

LEMMA PressInvHolds == PressInv => PressHolds
<1> SUFFICES ASSUME PressInv PROVE PressHolds
  OBVIOUS
<1>1. PressTypeOK
  BY PressTypes DEF PressInv
<1>2. SavedQueueIsCurrent
  BY DEF PressInv, QueuesAgree, SavedQueueIsCurrent
<1>3. NoPressSilentlyDropped
  <2> SUFFICES ASSUME NEW p \in 1 .. pressed
               PROVE  OnDevice(p) \/ published[p] > 0 \/ p \in gone
    BY DEF NoPressSilentlyDropped
  <2>1. p \in OnPi \/ p \in IsOut \/ p \in gone
    BY DEF PressInv, QueuesAgree
  <2>2. ASSUME p \in OnPi PROVE OnDevice(p)
    <3>1. CASE up
      BY <2>2, <3>1, LenProperties DEF OnPi, OnDevice, ToSet, Contains, PressInv, PressTyped
    <3>2. CASE ~up /\ disk # Torn
      BY <2>2, <3>2, LenProperties DEF OnPi, OnDevice, ToSet, Contains, PressInv, PressTyped
    <3>3. CASE ~up /\ disk = Torn
      BY <2>2, <3>3 DEF OnPi, ToSet, Torn, NoPress, PressInv, PressTyped
    <3> QED BY <3>1, <3>2, <3>3
  <2> QED BY <2>1, <2>2 DEF IsOut
<1>4. RecordedInOrder
  <2> SUFFICES ASSUME NEW p \in 1 .. pressed, NEW q \in 1 .. pressed, p < q, rows[q] > 0
               PROVE  rows[p] > 0 \/ p \in gone
    BY DEF RecordedInOrder
  <2>1. q \in HasRow /\ p \in 1 .. q - 1
    BY PressQueueAssumption DEF PressQueueAssumption, HasRow, PressInv, PressTyped, Presses
  <2> QED BY <2>1 DEF PressInv, RowsAgree, InTurn, HasRow
<1> QED BY <1>1, <1>2, <1>3, <1>4 DEF PressHolds

\* So what the doorbell's way promises is always so.
LEMMA PressAlways == PressSpec => []PressHolds
<1>1. PressInit => PressInv
  BY PressInitially, PressQueueAssumption, FaultsAssumption
<1>2. PressInv /\ [PressNext]_pressVars => PressInv'
  BY PressStep, PressQueueAssumption, FaultsAssumption
<1> QED BY <1>1, <1>2, PressInvHolds, PTL DEF PressSpec

-----------------------------------------------------------------------------
(* Doorbells and the watchdog over them.                                   *)

\* What the watchdog says agrees with what it recorded, and stays so.
LEMMA DevicesStep ==
    ASSUME DevicesAssumption, DevicesHold, [DevicesNext]_devicesVars
    PROVE  DevicesHold'
<1> USE DEF DevicesAssumption, DevicesHold
<1>1. ASSUME UNCHANGED watch, UNCHANGED deviceFaults,
             pairedDevices' \subseteq Devices, seen' \subseteq pairedDevices',
             token' \in [Devices -> 0 .. MaxPairings], pi' \in [Devices -> 0 .. MaxPairings],
             silent' \in [Devices -> Nat], \A d \in Devices : silent'[d] <= TimeoutOf[d] + 1,
             pairingWindow' \in 0 .. WindowTicks, registering' \subseteq Devices,
             inFlight' \in [Devices -> {"none", "heartbeat", "press"}], issued' \in 0 .. MaxPairings
      PROVE  DevicesHold'
  BY <1>1 DEF watch, DevicesTypeOK, RecordIsWhatWasTold
<1>2. ASSUME OpenWindow \/ CloseWindow \/ DevicesTick PROVE DevicesHold'
  BY <1>1, <1>2 DEF OpenWindow, CloseWindow, DevicesTick, DevicesTypeOK
<1>3. ASSUME NEW d \in Devices, PairDevice(d) \/ Touch(d) \/ PassOver(d) PROVE DevicesHold'
  BY <1>1, <1>3 DEF PairDevice, Register, CreateDeviceToken, CopyToken, DeleteDevice, Touch, PassOver,
     DevicesTypeOK
<1>4. ASSUME NEW d \in Devices, NEW kind \in {"heartbeat", "press"}, Arrive(d, kind) PROVE DevicesHold'
  BY <1>1, <1>4 DEF Arrive, DevicesTypeOK
<1>5. ASSUME BeginPass PROVE DevicesHold'
  BY <1>5 DEF BeginPass, device, DevicesTypeOK, RecordIsWhatWasTold
<1>6. ASSUME NEW d \in Devices, Bootstrap(d) \/ NoTransition(d) PROVE DevicesHold'
  BY <1>6 DEF Bootstrap, NoTransition, LookedAt, NewState, device, DevicesTypeOK, RecordIsWhatWasTold
<1>7. ASSUME NEW d \in Devices, Transition(d) \/ LostTransition(d) PROVE DevicesHold'
  BY <1>7 DEF Transition, LostTransition, LookedAt, NewState, device, DevicesTypeOK, RecordIsWhatWasTold
<1>8. ASSUME WatchdogRestart PROVE DevicesHold'
  BY <1>8 DEF WatchdogRestart, DevicesTypeOK, RecordIsWhatWasTold
<1>9. ASSUME UNCHANGED devicesVars PROVE DevicesHold'
  BY <1>9 DEF devicesVars, DevicesTypeOK, RecordIsWhatWasTold
<1> QED BY <1>2, <1>3, <1>4, <1>5, <1>6, <1>7, <1>8, <1>9 DEF DevicesNext, Watch

\* So it is always so.
LEMMA DevicesAlways == DevicesSpec => []DevicesHold
<1>1. DevicesInit => DevicesHold
  BY DevicesAssumption DEF DevicesAssumption, DevicesInit, DevicesHold, DevicesTypeOK, RecordIsWhatWasTold
<1>2. DevicesHold /\ [DevicesNext]_devicesVars => DevicesHold'
  BY DevicesStep, DevicesAssumption
<1> QED BY <1>1, <1>2, PTL DEF DevicesSpec

\* Flush threads, timeouts, lost answers and crashes on both sides leave the
\* presses in the queue and its file, in order at the host, or given up for a
\* reason the code states; and the watchdog's record does not contradict what
\* it published.  For any number of presses, retries, failures and doorbells.
THEOREM DoorbellIsCorrect == PressSpec /\ DevicesSpec => []DoorbellHolds
BY PressAlways, DevicesAlways, PTL DEF DoorbellHolds

-----------------------------------------------------------------------------
(* Automatic re-arming.                                                    *)

\* Every step of the scheduler and of a click keeps a shown time of re-arming.
LEMMA RearmStep == ASSUME RearmAssumption, RearmHolds, [RearmNext]_rearmVars PROVE RearmHolds'
<1> USE DEF RearmAssumption, RearmHolds
<1>1. ASSUME RearmFallsDue \/ WebDies \/ ScheduleSwitched PROVE RearmHolds'
  <2> USE <1>1 DEF RearmFallsDue, WebDies, ScheduleSwitched
  <2>1. RearmTypeOK'
    <3>1. armed' \in BOOLEAN /\ scheduled' \in BOOLEAN /\ excused' \in BOOLEAN
      BY DEF RearmTypeOK
    <3>2. key' \in {"none", "pending", "due"} /\ owed' \in {"nothing", "later", "now"}
      BY DEF RearmTypeOK
    <3>3. clicks' \in [Clicks -> {"none", "set", "clear"}]
      BY DEF RearmTypeOK
    <3>4. thread' \in {"waiting", "transitions", "key", "delete", "allow"}
      BY DEF RearmTypeOK
    <3>5. rearmFaults' \in 0 .. MaxRearmFaults
      BY DEF RearmTypeOK
    <3> QED BY <3>1, <3>2, <3>3, <3>4, <3>5 DEF RearmTypeOK
  <2>2. RearmKept'
    BY DEF RearmTypeOK, RearmKept
  <2> QED BY <2>1, <2>2
<1>2. ASSUME RedisRefusesThread \/ DetectorDies PROVE RearmHolds'
  <2> USE <1>2 DEF RedisRefusesThread, DetectorDies
  <2>1. RearmTypeOK'
    <3>1. armed' \in BOOLEAN /\ scheduled' \in BOOLEAN /\ excused' \in BOOLEAN
      BY DEF RearmTypeOK
    <3>2. key' \in {"none", "pending", "due"} /\ owed' \in {"nothing", "later", "now"}
      BY DEF RearmTypeOK
    <3>3. clicks' \in [Clicks -> {"none", "set", "clear"}]
      BY DEF RearmTypeOK
    <3>4. thread' \in {"waiting", "transitions", "key", "delete", "allow"}
      BY DEF RearmTypeOK
    <3>5. rearmFaults' \in 0 .. MaxRearmFaults
      BY DEF RearmTypeOK
    <3> QED BY <3>1, <3>2, <3>3, <3>4, <3>5 DEF RearmTypeOK
  <2>2. RearmKept'
    BY DEF RearmTypeOK, RearmKept
  <2> QED BY <2>1, <2>2
<1>3. ASSUME NEW c \in Clicks,
             ArmClick(c) \/ DisarmByAdmin(c) \/ DisarmByUser(c) \/ CancelRearm(c)
      PROVE  RearmHolds'
  <2> USE <1>3 DEF ArmClick, DisarmByAdmin, DisarmByUser, CancelRearm, Click
  <2>1. RearmTypeOK'
    <3>1. armed' \in BOOLEAN /\ scheduled' \in BOOLEAN /\ excused' \in BOOLEAN
      BY DEF RearmTypeOK
    <3>2. key' \in {"none", "pending", "due"} /\ owed' \in {"nothing", "later", "now"}
      BY DEF RearmTypeOK
    <3>3. clicks' \in [Clicks -> {"none", "set", "clear"}]
      BY DEF RearmTypeOK
    <3>4. thread' \in {"waiting", "transitions", "key", "delete", "allow"}
      BY DEF RearmTypeOK
    <3>5. rearmFaults' \in 0 .. MaxRearmFaults
      BY DEF RearmTypeOK
    <3> QED BY <3>1, <3>2, <3>3, <3>4, <3>5 DEF RearmTypeOK
  <2>2. RearmKept'
    BY DEF RearmKept
  <2> QED BY <2>1, <2>2
<1>4. ASSUME NEW c \in Clicks, SetRearm(c) \/ ClearRearm(c) \/ RedisRefusesWeb(c)
      PROVE  RearmHolds'
  <2> USE <1>4 DEF SetRearm, ClearRearm, RedisRefusesWeb
  <2>1. RearmTypeOK'
    <3>1. armed' \in BOOLEAN /\ scheduled' \in BOOLEAN /\ excused' \in BOOLEAN
      BY DEF RearmTypeOK
    <3>2. key' \in {"none", "pending", "due"} /\ owed' \in {"nothing", "later", "now"}
      BY DEF RearmTypeOK
    <3>3. clicks' \in [Clicks -> {"none", "set", "clear"}]
      BY DEF RearmTypeOK
    <3>4. thread' \in {"waiting", "transitions", "key", "delete", "allow"}
      BY DEF RearmTypeOK
    <3>5. rearmFaults' \in 0 .. MaxRearmFaults
      BY DEF RearmTypeOK
    <3> QED BY <3>1, <3>2, <3>3, <3>4, <3>5 DEF RearmTypeOK
  <2>2. RearmKept'
    BY DEF RearmTypeOK, RearmKept
  <2> QED BY <2>1, <2>2
<1>5. ASSUME SchedulerStep PROVE RearmHolds'
  <2> USE <1>5 DEF SchedulerStep, SchedulerTick, Boundary, ReadKey, DeleteKey, Rearms
  <2>1. RearmTypeOK'
    <3>1. armed' \in BOOLEAN /\ scheduled' \in BOOLEAN /\ excused' \in BOOLEAN
      BY DEF RearmTypeOK
    <3>2. key' \in {"none", "pending", "due"} /\ owed' \in {"nothing", "later", "now"}
      BY DEF RearmTypeOK
    <3>3. clicks' \in [Clicks -> {"none", "set", "clear"}]
      BY DEF RearmTypeOK
    <3>4. thread' \in {"waiting", "transitions", "key", "delete", "allow"}
      BY DEF RearmTypeOK
    <3>5. rearmFaults' \in 0 .. MaxRearmFaults
      BY DEF RearmTypeOK
    <3> QED BY <3>1, <3>2, <3>3, <3>4, <3>5 DEF RearmTypeOK
  <2>2. RearmKept'
    BY DEF RearmTypeOK, RearmKept
  <2> QED BY <2>1, <2>2
<1>6. ASSUME UNCHANGED rearmVars PROVE RearmHolds'
  BY <1>6 DEF rearmVars, RearmTypeOK, RearmKept
<1> QED BY <1>1, <1>2, <1>3, <1>4, <1>5, <1>6 DEF RearmNext

\* A time of re-arming a user was shown stands until the system is armed, the
\* schedule suppresses the re-arm or somebody clears it, for any number of
\* requests in hand and of failures.
THEOREM RearmIsKept == RearmSpec => []RearmHolds
<1>1. ASSUME RearmInit PROVE RearmHolds
  <2>1. RearmTypeOK
    <3>1. rearmFaults \in 0 .. MaxRearmFaults
      BY <1>1, RearmAssumption DEF RearmAssumption, RearmInit
    <3> QED BY <1>1, <3>1 DEF RearmInit, RearmTypeOK
  <2>2. RearmKept
    BY <1>1 DEF RearmInit, RearmKept
  <2> QED BY <2>1, <2>2 DEF RearmHolds
<1>2. RearmHolds /\ [RearmNext]_rearmVars => RearmHolds'
  BY RearmStep, RearmAssumption
<1> QED BY <1>1, <1>2, PTL DEF RearmSpec

-----------------------------------------------------------------------------
(* The lockout.                                                            *)

\* What is recorded is what was compared.
LockoutInv == LockoutHolds /\ tried = failed

\* What a recorded failure counts for.
LEMMA LockoutSum ==
    ASSUME NEW f \in [Ages -> Nat]
    PROVE  /\ SumFunction(f) \in Nat
           /\ \A a \in Ages : f[a] <= SumFunction(f)
           /\ SumFunction(f) = SumFunctionOnSet(f, Ages)
           /\ IsFiniteSet(Ages) /\ Summable(f, Ages) /\ 0 \in Ages
<1>1. IsFiniteSet(Ages)
  BY LockoutAssumption, FS_Interval DEF Ages
<1>2. SumFunction(f) = SumFunctionOnSet(f, Ages)
  BY DEF SumFunction
<1>3. \A a \in Ages : f[a] \in Nat
  OBVIOUS
<1>4. SumFunctionOnSet(f, Ages) \in Nat /\ \A a \in Ages : f[a] <= SumFunctionOnSet(f, Ages)
  BY <1>1, <1>3, SumOfNaturals
<1>5. Summable(f, Ages)
  BY <1>1, <1>3 DEF Summable
<1>6. 0 \in Ages
  BY LockoutAssumption DEF Ages
<1> QED BY <1>1, <1>2, <1>4, <1>5, <1>6

\* Nobody has tried a password yet.
LEMMA LockoutStarts == LoginInit => LockoutInv
<1> SUFFICES ASSUME LoginInit PROVE LockoutInv
  OBVIOUS
<1>0. failed \in [Ages -> Nat] /\ \A a \in Ages : failed[a] = 0
  BY DEF LoginInit
<1>1. SumFunction(failed) = 0
  BY <1>0, LockoutSum, SumOfZeros
<1>2. failed \in [Ages -> 0 .. MaxAttempts] /\ tried = failed /\ inside \in BOOLEAN
  <2>1. failed \in [Ages -> 0 .. MaxAttempts]
    BY <1>0, LockoutAssumption
  <2>2. tried = failed /\ inside \in BOOLEAN
    BY Zenon DEF LoginInit
  <2> QED BY <2>1, <2>2
<1>3. tried \in [Ages -> Nat]
  BY <1>0, <1>2, Zenon
<1>4. SumFunction(tried) <= MaxAttempts
  <2>1. SumFunction(tried) = 0
    BY <1>1, <1>2
  <2> QED BY <2>1, LockoutAssumption
<1> QED BY <1>2, <1>3, <1>4 DEF LockoutInv, LockoutHolds, LoginTypeOK, GuessesBounded

\* An attempt is compared only while fewer than max_attempts are on record, and ages
\* out of the record one tick at a time.
LEMMA LockoutGoesOn == LockoutInv /\ [LoginNext]_loginVars => LockoutInv'
<1> SUFFICES ASSUME LockoutInv, [LoginNext]_loginVars PROVE LockoutInv'
  OBVIOUS
<1> USE LockoutAssumption
<1>0. /\ failed \in [Ages -> 0 .. MaxAttempts] /\ tried = failed /\ inside \in BOOLEAN
      /\ tried \in [Ages -> Nat]
      /\ SumFunction(failed) <= MaxAttempts
  BY DEF LockoutInv, LockoutHolds, LoginTypeOK, GuessesBounded
<1>s. /\ SumFunction(failed) \in Nat /\ \A a \in Ages : failed[a] <= SumFunction(failed)
      /\ IsFiniteSet(Ages) /\ Summable(failed, Ages) /\ 0 \in Ages
      /\ SumFunction(failed) = SumFunctionOnSet(failed, Ages)
  BY <1>0, LockoutSum
<1>u. ASSUME UNCHANGED <<failed, tried>>, inside' \in BOOLEAN PROVE LockoutInv'
  BY <1>0, <1>u DEF LockoutInv, LockoutHolds, LoginTypeOK, GuessesBounded
<1>d. ASSUME NEW f \in [Ages -> Nat], SumFunction(f) <= MaxAttempts, failed' = f, tried' = f, UNCHANGED inside
      PROVE  LockoutInv'
  <2>1. \A a \in Ages : f[a] \in 0 .. MaxAttempts
    BY <1>d, LockoutSum
  <2>2. f \in [Ages -> 0 .. MaxAttempts]
    BY <2>1
  <2> QED BY <1>0, <1>d, <2>2 DEF LockoutInv, LockoutHolds, LoginTypeOK, GuessesBounded
<1>1. CASE WrongPassword
  <2> DEFINE f == [failed EXCEPT ![0] = @ + 1]
  <2>1. SumFunction(failed) < MaxAttempts
    BY <1>1, <1>s DEF WrongPassword, AddressLocked
  <2>2. failed[0] <= MaxAttempts /\ failed[0] \in Nat
    BY <1>0, <1>s
  <2>3. failed' = f /\ tried' = f /\ UNCHANGED inside
    BY <1>0, <1>1, <2>2 DEF WrongPassword, Record
  <2>4. f \in [Ages -> Nat] /\ f[0] = failed[0] + 1 /\ \A a \in Ages \ {0} : failed[a] = f[a]
    BY <1>0, <1>s, <2>2
  <2> HIDE DEF f
  <2>5. SumFunction(f) = SumFunctionOnSet(f, Ages) /\ Summable(f, Ages)
    BY <2>4, LockoutSum
  <2>6. SumFunctionOnSet(f, Ages) = SumFunctionOnSet(failed, Ages) - failed[0] + f[0]
    BY <1>s, <2>4, <2>5, SumAfterChange
  <2>7. SumFunction(f) <= MaxAttempts
    BY <1>s, <2>1, <2>2, <2>4, <2>5, <2>6
  <2> QED BY <1>d, <2>3, <2>4, <2>7
<1>2. CASE RightPassword
  BY <1>2, <1>u DEF RightPassword
<1>3. CASE Logout
  BY <1>3, <1>u DEF Logout
<1>4. CASE Refused
  BY <1>0, <1>4, <1>u DEF Refused, loginVars
<1>5. CASE LoginTick
  <2> DEFINE f == [a \in Ages |-> IF a = 0 THEN 0 ELSE failed[a - 1]]
             n == LockoutTicks - 1
  <2>1. failed' = f /\ tried' = f /\ UNCHANGED inside
    BY <1>0, <1>5 DEF LoginTick, Older
  <2>2. \A a \in Ages : a # 0 => a - 1 \in Ages
    BY DEF Ages
  <2>3. f \in [Ages -> Nat]
    BY <1>0, <2>2
  <2>4. n \in Nat /\ Ages = 0 .. n /\ Ages \ {n} = 0 .. n - 1 /\ n \in Ages
    BY DEF Ages
  <2>5. IsOlder(f, failed, n)
    BY <1>0, <2>4 DEF IsOlder
  <2> HIDE DEF f, n
  <2>6. SumFunctionOnSet(f, 0 .. n) = SumFunctionOnSet(failed, 0 .. n - 1)
    <3>1. n \in 0 .. n
      BY <2>4
    <3> QED BY <2>4, <2>5, <3>1, SumOlder
  <2>7. SumFunctionOnSet(failed, Ages) = failed[n] + SumFunctionOnSet(failed, 0 .. n - 1)
        /\ SumFunctionOnSet(failed, 0 .. n - 1) \in Int
    <3>1. Splits(failed, Ages, n)
      BY <1>s, <2>4, SumSplits
    <3> QED BY <2>4, <3>1 DEF Splits
  <2>8. SumFunction(f) = SumFunctionOnSet(f, 0 .. n)
    BY <2>3, <2>4, LockoutSum
  <2>9. SumFunction(f) <= MaxAttempts
    <3>1. failed[n] \in Nat
      BY <1>0, <2>4
    <3> QED BY <1>0, <1>s, <2>6, <2>7, <2>8, <3>1
  <2> QED BY <1>d, <2>1, <2>3, <2>9
<1>6. CASE UNCHANGED loginVars
  BY <1>0, <1>6, <1>u DEF loginVars
<1> QED BY <1>1, <1>2, <1>3, <1>4, <1>5, <1>6 DEF LoginNext
-----------------------------------------------------------------------------
(* The rate limit.                                                         *)

\* What was let through during the last k ticks.
Lately(f, k) == SumFunctionOnSet(f, 0 .. k - 1)

Expiring(asked) == \E c \in Callers : asked[c] = "expire"

\* What a key that counts to n lets through, but for a request that still waits for
\* EXPIRE.
OfThisKey(n, asked) ==
    (IF n <= Capacity THEN n ELSE Capacity) - (IF Expiring(asked) THEN 1 ELSE 0)

\* One request sets the key's TTL, as long as it has none.
OneExpires ==
    /\ \A c, d \in Callers : callers[c] = "expire" /\ callers[d] = "expire" => c = d
    /\ Expiring(callers) => count > 0 /\ ttl = Forever
    /\ count = 0 => ttl = Forever

\* The last window's length saw this key, which let n through, and one before it;
\* since EXPIRE, this key alone.
Apart(f, t, n) ==
    /\ Lately(f, LimitWindow) <= Capacity + n
    /\ t # Forever => Lately(f, LimitWindow - t) <= n
WindowsApart == Apart(admitted, ttl, OfThisKey(count, callers) + failures)

RateInv ==
    /\ RateTypeOK /\ OneExpires /\ WindowsApart
    /\ count > 0 /\ ttl = Forever => stuck \/ Expiring(callers)

LimitAges == 0 .. LimitWindow - 1

\* What was let through is a number of requests.
LEMMA LatelyIsNatural ==
    ASSUME NEW f \in [LimitAges -> Nat], NEW k \in 0 .. LimitWindow
    PROVE  SumFunctionOnSet(f, 0 .. k - 1) \in Nat
<1>1. IsFiniteSet(0 .. k - 1)
  BY RateAssumption, FS_Interval
<1>2. \A a \in 0 .. k - 1 : f[a] \in Nat
  BY RateAssumption DEF LimitAges
<1> QED BY <1>1, <1>2, SumOfNaturals

\* One more request, and every length of time that saw anything saw it.
LEMMA LatelyGrows ==
    ASSUME NEW f \in [LimitAges -> Nat], NEW k \in 0 .. LimitWindow
    PROVE  SumFunctionOnSet([f EXCEPT ![0] = @ + 1], 0 .. k - 1)
              = SumFunctionOnSet(f, 0 .. k - 1) + (IF k = 0 THEN 0 ELSE 1)
<1> DEFINE h == [f EXCEPT ![0] = @ + 1]
           S == 0 .. k - 1
<1>1. h \in [LimitAges -> Nat] /\ h[0] = f[0] + 1 /\ f[0] \in Nat /\ \A a \in LimitAges \ {0} : f[a] = h[a]
  BY RateAssumption DEF LimitAges
<1>2. IsFiniteSet(S) /\ S \subseteq LimitAges
  <2>1. IsFiniteSet(S)
    BY RateAssumption, FS_Interval
  <2>2. S \subseteq LimitAges
    BY RateAssumption DEF LimitAges
  <2> QED BY <2>1, <2>2
<1> HIDE DEF h
<1>3. Summable(f, S) /\ Summable(h, S)
  <2>1. \A a \in S : f[a] \in Int /\ h[a] \in Int
    BY <1>1, <1>2
  <2> HIDE DEF S
  <2> QED BY <1>2, <2>1 DEF Summable
<1>4. CASE k = 0
  <2>1. S = {}
    BY <1>4
  <2> HIDE DEF S
  <2>2. SumFunctionOnSet(f, S) = 0 /\ SumFunctionOnSet(h, S) = 0
    BY <1>3, <2>1, SumWithout
  <2> QED BY <1>4, <2>2 DEF S, h
<1>5. CASE k # 0
  <2>1. 0 \in S /\ \A a \in S \ {0} : f[a] = h[a]
    BY <1>1, <1>2, <1>5
  <2>2. SumFunctionOnSet(f, S) \in Nat
    BY LatelyIsNatural
  <2> HIDE DEF S
  <2>3. SumFunctionOnSet(h, S) = SumFunctionOnSet(f, S) - f[0] + h[0]
    BY <1>3, <2>1, SumAfterChange
  <2> QED BY <1>1, <1>5, <2>2, <2>3 DEF S, h
<1> QED BY <1>4, <1>5

\* A tick later, a length of time saw what one tick less saw before.
LEMMA LatelyAges ==
    ASSUME NEW f \in [LimitAges -> Nat], NEW k \in 1 .. LimitWindow
    PROVE  SumFunctionOnSet([a \in LimitAges |-> IF a = 0 THEN 0 ELSE f[a - 1]], 0 .. k - 1)
              = SumFunctionOnSet(f, 0 .. k - 2)
<1> DEFINE h == [a \in LimitAges |-> IF a = 0 THEN 0 ELSE f[a - 1]]
           n == LimitWindow - 1
           m == k - 1
<1>1. n \in Nat /\ m \in 0 .. n /\ m - 1 = k - 2
  BY RateAssumption
<1>2. IsOlder(h, f, n)
  <2>1. ASSUME NEW a \in 0 .. n PROVE f[a] \in Int /\ h[a] = IF a = 0 THEN 0 ELSE f[a - 1]
    <3>1. a \in LimitAges
      BY DEF LimitAges
    <3> QED BY <3>1
  <2> QED BY <2>1 DEF IsOlder
<1> HIDE DEF h, n, m
<1>3. SumFunctionOnSet(h, 0 .. m) = SumFunctionOnSet(f, 0 .. m - 1)
  BY <1>1, <1>2, SumOlder
<1> QED BY <1>1, <1>3 DEF h, m

\* A shorter time saw no more.
LEMMA LatelyShrinks ==
    ASSUME NEW f \in [LimitAges -> Nat], NEW k \in 1 .. LimitWindow
    PROVE  SumFunctionOnSet(f, 0 .. k - 2) <= SumFunctionOnSet(f, 0 .. k - 1)
<1> DEFINE S == 0 .. k - 1
<1>1. k - 1 \in S /\ S \ {k - 1} = 0 .. k - 2 /\ k - 1 \in LimitAges /\ S \subseteq LimitAges /\ f[k - 1] \in Nat
  BY RateAssumption DEF LimitAges
<1>2. Summable(f, S)
  <2>1. IsFiniteSet(S)
    BY RateAssumption, FS_Interval
  <2> HIDE DEF S
  <2> QED BY <1>1, <2>1 DEF Summable
<1> HIDE DEF S
<1>3. Splits(f, S, k - 1)
  BY <1>1, <1>2, SumSplits
<1>4. SumFunctionOnSet(f, S) = f[k - 1] + SumFunctionOnSet(f, 0 .. k - 2) /\ SumFunctionOnSet(f, 0 .. k - 2) \in Int
  BY <1>1, <1>3 DEF Splits
<1> QED BY <1>1, <1>4 DEF S
-----------------------------------------------------------------------------
\* No request has come yet.
LEMMA RateStarts == RateInit => RateInv
<1> SUFFICES ASSUME RateInit PROVE RateInv
  OBVIOUS
<1> USE RateAssumption
<1>1. RateTypeOK
  <2>1. count \in Nat /\ ttl \in 1 .. Forever /\ failures \in 0 .. MaxFailures
    BY DEF RateInit, Forever
  <2>2. callers \in [Callers -> {"idle", "incr", "expire"}]
    BY DEF RateInit
  <2>3. stuck \in BOOLEAN
    BY Zenon DEF RateInit
  <2>4. admitted \in [0 .. LimitWindow - 1 -> Nat]
    BY DEF RateInit
  <2> QED BY <2>1, <2>2, <2>3, <2>4 DEF RateTypeOK
<1>2. OneExpires /\ ~Expiring(callers)
  BY DEF RateInit, OneExpires, Expiring
<1>3. \A k \in 0 .. LimitWindow : Lately(admitted, k) = 0
  <2> SUFFICES ASSUME NEW k \in 0 .. LimitWindow PROVE Lately(admitted, k) = 0
    OBVIOUS
  <2>1. IsFiniteSet(0 .. k - 1)
    BY FS_Interval
  <2>2. \A a \in 0 .. k - 1 : admitted[a] = 0
    BY DEF RateInit
  <2> QED BY <2>1, <2>2, SumOfZeros DEF Lately
<1>4. Lately(admitted, LimitWindow) = 0 /\ OfThisKey(count, callers) = 0
  BY <1>2, <1>3 DEF OfThisKey, RateInit
<1> QED BY <1>1, <1>2, <1>4 DEF RateInv, WindowsApart, Apart, RateInit

\* A request is let through in the key's name, or in that of a failure.
LEMMA LetsOneThrough ==
    ASSUME NEW f \in [LimitAges -> Nat], NEW t \in 1 .. LimitWindow + 1, NEW n \in Nat, Apart(f, t, n),
           NEW h, NEW u, NEW m \in Nat, u = t \/ u = LimitWindow,
           (h = f /\ m >= n) \/ (h = [f EXCEPT ![0] = @ + 1] /\ m > n)
    PROVE  Apart(h, u, m)
<1> USE RateAssumption
<1>1. \A k \in 0 .. LimitWindow : Lately(f, k) \in Nat
  BY LatelyIsNatural DEF Lately
<1>2. ASSUME NEW k \in 0 .. LimitWindow PROVE Lately(h, k) \in Nat /\ Lately(h, k) <= Lately(f, k) + (m - n)
  <2>1. CASE h = f /\ m >= n
    BY <1>1, <2>1
  <2>2. CASE h = [f EXCEPT ![0] = @ + 1] /\ m > n
    <3>1. Lately(h, k) = Lately(f, k) + (IF k = 0 THEN 0 ELSE 1)
      BY <2>2, LatelyGrows DEF Lately
    <3> QED BY <1>1, <2>2, <3>1
  <2> QED BY <2>1, <2>2
<1>3. Lately(h, LimitWindow) <= Capacity + m
  <2>1. Lately(f, LimitWindow) <= Capacity + n
    BY DEF Apart
  <2> QED BY <1>1, <1>2, <2>1
<1>4. ASSUME u # Forever PROVE Lately(h, LimitWindow - u) <= m
  <2>1. CASE u = t
    <3>1. Lately(f, LimitWindow - t) <= n /\ LimitWindow - t \in 0 .. LimitWindow
      BY <1>4, <2>1 DEF Apart, Forever
    <3> QED BY <1>1, <1>2, <2>1, <3>1
  <2>2. CASE u = LimitWindow
    <3>1. Summable(h, {}) /\ 0 .. LimitWindow - u - 1 = {}
      BY <2>2, FS_EmptySet DEF Summable
    <3>2. Lately(h, LimitWindow - u) = 0
      BY <3>1, SumWithout DEF Lately
    <3> QED BY <3>2
  <2> QED BY <2>1, <2>2
<1> QED BY <1>3, <1>4 DEF Apart

\* What a key lets through is a natural number, and no more than the limit.
LEMMA KeyHolds ==
    ASSUME NEW n \in Nat, NEW asked, Expiring(asked) => n > 0
    PROVE  OfThisKey(n, asked) \in 0 .. Capacity
BY RateAssumption DEF OfThisKey

\* A tick ages what was let through, and a key that goes leaves its window behind; an
\* INCR or a refusal lets one more through and is counted for it; EXPIRE starts the
\* window anew, with nothing but its own key's requests in it.
LEMMA RateGoesOn == RateInv /\ [RateNext]_rateVars => RateInv'
<1> SUFFICES ASSUME RateInv, [RateNext]_rateVars PROVE RateInv'
  BY Zenon
<1> USE RateAssumption
<1>0. /\ RateTypeOK /\ OneExpires /\ WindowsApart
      /\ count > 0 /\ ttl = Forever => stuck \/ Expiring(callers)
  BY DEF RateInv
<1>t. /\ count \in Nat /\ ttl \in 1 .. LimitWindow + 1
      /\ callers \in [Callers -> {"idle", "incr", "expire"}]
      /\ failures \in 0 .. MaxFailures /\ failures \in Nat /\ stuck \in BOOLEAN
      /\ admitted \in [LimitAges -> Nat] /\ Forever = LimitWindow + 1
  BY <1>0 DEF RateTypeOK, LimitAges, Forever
<1>k. OfThisKey(count, callers) \in 0 .. Capacity
  BY <1>0, KeyHolds DEF OneExpires, RateTypeOK
<1>o. /\ \A c, d \in Callers : callers[c] = "expire" /\ callers[d] = "expire" => c = d
      /\ Expiring(callers) => count > 0 /\ ttl = Forever
      /\ count = 0 => ttl = Forever
  BY <1>0 DEF OneExpires
<1>w. Apart(admitted, ttl, OfThisKey(count, callers) + failures)
  BY <1>0 DEF WindowsApart
<1>m. ASSUME ttl' = ttl \/ ttl' = LimitWindow, OfThisKey(count', callers') \in 0 .. Capacity, failures' \in Nat,
             \/ admitted' = admitted /\ OfThisKey(count', callers') + failures' >= OfThisKey(count, callers) + failures
             \/ /\ admitted' = [admitted EXCEPT ![0] = @ + 1]
                /\ OfThisKey(count', callers') + failures' > OfThisKey(count, callers) + failures
      PROVE  WindowsApart'
  <2>1. OfThisKey(count, callers) + failures \in Nat
    BY <1>t, <1>k
  <2>3. OfThisKey(count', callers') + failures' \in Nat
    BY <1>m
  <2>2. Apart(admitted', ttl', OfThisKey(count', callers') + failures')
    BY <1>t, <1>w, <1>m, <2>1, <2>3, LetsOneThrough
  <2> QED BY <2>2 DEF WindowsApart
<1>a. [admitted EXCEPT ![0] = @ + 1] \in [LimitAges -> Nat]
  BY <1>t DEF LimitAges
<1>u. ASSUME UNCHANGED <<count, ttl, failures, stuck, admitted>>,
             callers' \in [Callers -> {"idle", "incr", "expire"}],
             \A c \in Callers : callers'[c] = "expire" <=> callers[c] = "expire"
      PROVE  RateInv'
  <2>1. Expiring(callers') <=> Expiring(callers)
    BY <1>u DEF Expiring
  <2>2. OneExpires'
    BY <1>o, <1>u, <2>1 DEF OneExpires
  <2>3. RateTypeOK'
    BY <1>0, <1>u DEF RateTypeOK
  <2>4. OfThisKey(count', callers') = OfThisKey(count, callers)
    BY <1>u, <2>1 DEF OfThisKey
  <2>5. WindowsApart'
    BY <1>w, <1>u, <2>4 DEF WindowsApart
  <2> QED BY <1>0, <1>u, <2>1, <2>2, <2>3, <2>5 DEF RateInv
<1>1. CASE RateClock
  <2>1. /\ IF ttl = 1 THEN count' = 0 /\ ttl' = Forever
                      ELSE count' = count /\ ttl' = IF ttl = Forever THEN ttl ELSE ttl - 1
        /\ stuck' = (stuck /\ count' # 0)
        /\ admitted' = [age \in LimitAges |-> IF age = 0 THEN 0 ELSE admitted[age - 1]]
        /\ callers' = callers /\ failures' = failures
    BY <1>1 DEF RateClock, LimitAges
  <2>e. Expiring(callers') = Expiring(callers) /\ (ttl = 1 => ~Expiring(callers))
    BY <1>o, <1>t, <2>1 DEF Expiring
  <2>2. OneExpires'
    BY <1>o, <1>t, <2>1, <2>e DEF OneExpires
  <2>3. RateTypeOK'
    <3>1. admitted' \in [LimitAges -> Nat]
      <4>1. \A a \in LimitAges : a # 0 => a - 1 \in LimitAges
        BY DEF LimitAges
      <4> QED BY <1>t, <2>1, <4>1
    <3>2. count' \in Nat /\ ttl' \in 1 .. Forever /\ failures' \in 0 .. MaxFailures
      BY <1>t, <2>1
    <3>3. stuck' \in BOOLEAN
      BY <2>1, Zenon
    <3>4. callers' \in [Callers -> {"idle", "incr", "expire"}]
      BY <1>t, <2>1
    <3> QED BY <3>1, <3>2, <3>3, <3>4 DEF RateTypeOK, LimitAges
  <2>4. OfThisKey(count', callers') = IF ttl = 1 THEN 0 ELSE OfThisKey(count, callers)
    BY <2>1, <2>e DEF OfThisKey
  <2>n. \A k \in 0 .. LimitWindow : Lately(admitted, k) \in Nat
    BY <1>t, LatelyIsNatural DEF Lately
  <2>l. ASSUME NEW k \in 1 .. LimitWindow
        PROVE  /\ Lately(admitted', k) = Lately(admitted, k - 1)
               /\ Lately(admitted, k - 1) <= Lately(admitted, k)
    <3>1. 0 .. k - 1 - 1 = 0 .. k - 2
      OBVIOUS
    <3>2. SumFunctionOnSet(admitted', 0 .. k - 1) = SumFunctionOnSet(admitted, 0 .. k - 2)
      BY <1>t, <2>1, LatelyAges
    <3>3. SumFunctionOnSet(admitted, 0 .. k - 2) <= SumFunctionOnSet(admitted, 0 .. k - 1)
      BY <1>t, LatelyShrinks
    <3> QED BY <3>1, <3>2, <3>3 DEF Lately
  <2>w. /\ Lately(admitted, LimitWindow) <= Capacity + (OfThisKey(count, callers) + failures)
        /\ ttl # Forever => Lately(admitted, LimitWindow - ttl) <= OfThisKey(count, callers) + failures
    BY <1>w DEF Apart
  <2>5. Lately(admitted', LimitWindow) <= Capacity + (OfThisKey(count', callers') + failures')
    <3>1. /\ Lately(admitted', LimitWindow) = Lately(admitted, LimitWindow - 1)
          /\ Lately(admitted, LimitWindow - 1) <= Lately(admitted, LimitWindow)
          /\ Lately(admitted, LimitWindow) \in Nat /\ Lately(admitted, LimitWindow - 1) \in Nat
      BY <2>l, <2>n
    <3>2. ttl = 1 => Lately(admitted, LimitWindow - 1) <= OfThisKey(count, callers) + failures
      BY <1>t, <2>w
    <3> HIDE DEF Lately
    <3> QED BY <1>t, <1>k, <2>1, <2>4, <2>w, <3>1, <3>2
  <2>6. ASSUME ttl' # Forever PROVE Lately(admitted', LimitWindow - ttl') <= OfThisKey(count', callers') + failures'
    <3>1. ttl # Forever /\ ttl' = ttl - 1 /\ ttl # 1 /\ OfThisKey(count', callers') = OfThisKey(count, callers)
      BY <1>t, <2>1, <2>4, <2>6
    <3>2. LimitWindow - ttl' \in 1 .. LimitWindow /\ LimitWindow - ttl' - 1 = LimitWindow - ttl
      BY <1>t, <3>1
    <3>4. Lately(admitted', LimitWindow - ttl') = Lately(admitted, LimitWindow - ttl)
      BY <2>l, <3>2
    <3> QED BY <2>1, <2>w, <3>1, <3>4
  <2>7. count' > 0 /\ ttl' = Forever => stuck' \/ Expiring(callers')
    BY <1>0, <1>t, <2>1, <2>e
  <2>8. WindowsApart'
    <3>1. Apart(admitted', ttl', OfThisKey(count', callers') + failures')
      BY <2>5, <2>6 DEF Apart
    <3> QED BY <3>1 DEF WindowsApart
  <2> QED BY <2>2, <2>3, <2>7, <2>8 DEF RateInv
<1>2. ASSUME NEW c \in Callers, CheckLimit(c) PROVE RateInv'
  BY <1>2, <1>t, <1>u DEF CheckLimit
<1>3. ASSUME NEW c \in Callers, Incr(c) PROVE RateInv'
  <2>1. /\ callers[c] = "incr" /\ ttl' = ttl /\ failures' = failures /\ stuck' = stuck
        /\ count' = IF count <= Capacity THEN count + 1 ELSE count
        /\ IF count = 0 THEN callers' = [callers EXCEPT ![c] = "expire"] /\ admitted' = admitted
                        ELSE /\ callers' = [callers EXCEPT ![c] = "idle"]
                             /\ admitted' = IF count' <= Capacity THEN [admitted EXCEPT ![0] = @ + 1] ELSE admitted
    BY <1>3 DEF Incr, Answers
  <2>2. Expiring(callers') <=> count = 0 \/ Expiring(callers)
    <3>1. CASE count = 0
      <4>1. callers'[c] = "expire"
        BY <1>t, <2>1, <3>1
      <4> QED BY <3>1, <4>1 DEF Expiring
    <3>2. CASE count # 0
      <4>1. \A d \in Callers : callers'[d] = "expire" <=> callers[d] = "expire"
        BY <1>t, <2>1, <3>2
      <4> QED BY <3>2, <4>1 DEF Expiring
    <3> QED BY <3>1, <3>2
  <2>3. OneExpires'
    <3>1. count' > 0
      BY <1>t, <2>1
    <3>2. Expiring(callers') => ttl' = Forever
      BY <1>o, <2>1, <2>2
    <3>3. ASSUME NEW d \in Callers, NEW e \in Callers, callers'[d] = "expire", callers'[e] = "expire"
          PROVE  d = e
      <4>1. CASE count = 0
        <5>1. \A b \in Callers : callers[b] # "expire"
          BY <1>o, <4>1 DEF Expiring
        <5> QED BY <1>t, <2>1, <3>3, <4>1, <5>1
      <4>2. CASE count # 0
        BY <1>t, <1>o, <2>1, <3>3, <4>2
      <4> QED BY <4>1, <4>2
    <3> QED BY <1>t, <3>1, <3>2, <3>3 DEF OneExpires
  <2>4. RateTypeOK'
    <3>1. count' \in Nat /\ ttl' \in 1 .. Forever /\ failures' \in 0 .. MaxFailures /\ stuck' \in BOOLEAN
      BY <1>t, <2>1
    <3>2. callers' \in [Callers -> {"idle", "incr", "expire"}]
      BY <1>t, <2>1
    <3>3. admitted' \in [LimitAges -> Nat]
      BY <1>t, <1>a, <2>1
    <3> QED BY <3>1, <3>2, <3>3 DEF RateTypeOK, LimitAges
  <2>5. OfThisKey(count', callers') \in 0 .. Capacity
    BY <2>3, <2>4, KeyHolds DEF OneExpires, RateTypeOK
  <2>6. OfThisKey(count, callers) = (IF count <= Capacity THEN count ELSE Capacity) - (IF Expiring(callers) THEN 1 ELSE 0)
    BY DEF OfThisKey
  <2>7. OfThisKey(count', callers') = (IF count' <= Capacity THEN count' ELSE Capacity) - (IF count = 0 \/ Expiring(callers) THEN 1 ELSE 0)
    BY <2>2 DEF OfThisKey
  <2>8. \/ admitted' = admitted /\ OfThisKey(count', callers') + failures' >= OfThisKey(count, callers) + failures
        \/ /\ admitted' = [admitted EXCEPT ![0] = @ + 1]
           /\ OfThisKey(count', callers') + failures' > OfThisKey(count, callers) + failures
    <3>1. CASE count = 0
      BY <1>t, <1>o, <2>1, <2>6, <2>7, <3>1
    <3>2. CASE count # 0 /\ count < Capacity
      BY <1>t, <1>o, <1>k, <2>1, <2>6, <2>7, <3>2
    <3>3. CASE count # 0 /\ ~(count < Capacity)
      BY <1>t, <1>o, <1>k, <2>1, <2>6, <2>7, <3>3
    <3> QED BY <1>t, <3>1, <3>2, <3>3
  <2>10. WindowsApart'
    BY <1>t, <1>m, <2>1, <2>5, <2>8
  <2>11. count' > 0 /\ ttl' = Forever => stuck' \/ Expiring(callers')
    BY <1>0, <1>t, <2>1, <2>2
  <2> QED BY <2>3, <2>4, <2>10, <2>11 DEF RateInv
<1>4. ASSUME NEW c \in Callers, SetExpiry(c) PROVE RateInv'
  <2>0. Expiring(callers)
    BY <1>4 DEF SetExpiry, Expiring
  <2>1. /\ callers[c] = "expire" /\ ttl' = LimitWindow /\ count' = count /\ failures' = failures /\ stuck' = stuck
        /\ callers' = [callers EXCEPT ![c] = "idle"]
        /\ admitted' = [admitted EXCEPT ![0] = @ + 1]
    BY <1>4, <1>o, <2>0 DEF SetExpiry, Answers
  <2>2. ~Expiring(callers') /\ \A d \in Callers : callers'[d] # "expire"
    BY <1>t, <1>o, <2>1 DEF Expiring
  <2>3. OneExpires'
    BY <1>o, <2>0, <2>1, <2>2 DEF OneExpires
  <2>4. RateTypeOK'
    BY <1>t, <1>a, <2>1 DEF RateTypeOK, LimitAges
  <2>5. OfThisKey(count', callers') \in 0 .. Capacity
    BY <2>3, <2>4, KeyHolds DEF OneExpires, RateTypeOK
  <2>6. OfThisKey(count', callers') = OfThisKey(count, callers) + 1
    BY <1>t, <2>0, <2>1, <2>2 DEF OfThisKey
  <2>10. WindowsApart'
    <3>1. OfThisKey(count', callers') + failures' > OfThisKey(count, callers) + failures /\ failures' \in Nat
      BY <1>t, <1>k, <2>1, <2>5, <2>6
    <3> QED BY <1>t, <1>m, <2>1, <2>5, <3>1
  <2> QED BY <1>t, <2>1, <2>3, <2>4, <2>10 DEF RateInv
<1>5. ASSUME NEW c \in Callers, RateFailsOpen(c) PROVE RateInv'
  <2>1. /\ callers[c] # "idle" /\ failures < MaxFailures /\ failures' = failures + 1
        /\ stuck' = (stuck \/ callers[c] = "expire")
        /\ callers' = [callers EXCEPT ![c] = "idle"] /\ ttl' = ttl /\ count' = count
        /\ admitted' = [admitted EXCEPT ![0] = @ + 1]
    BY <1>5 DEF RateFailsOpen, Answers
  <2>2. /\ Expiring(callers') => Expiring(callers)
        /\ Expiring(callers) /\ ~Expiring(callers') => callers[c] = "expire"
    BY <1>t, <2>1 DEF Expiring
  <2>3. OneExpires'
    BY <1>t, <1>o, <2>1, <2>2 DEF OneExpires
  <2>4. RateTypeOK'
    <3>1. stuck' \in BOOLEAN
      BY <2>1, Zenon
    <3>2. callers' \in [Callers -> {"idle", "incr", "expire"}]
      BY <1>t, <2>1
    <3>3. failures' \in 0 .. MaxFailures
      BY <1>t, <2>1
    <3> QED BY <1>t, <1>a, <2>1, <3>1, <3>2, <3>3 DEF RateTypeOK, LimitAges
  <2>5. OfThisKey(count', callers') \in 0 .. Capacity
    BY <2>3, <2>4, KeyHolds DEF OneExpires, RateTypeOK
  <2>6. OfThisKey(count', callers') >= OfThisKey(count, callers)
    BY <1>t, <2>1, <2>2 DEF OfThisKey
  <2>10. WindowsApart'
    <3>1. OfThisKey(count', callers') + failures' > OfThisKey(count, callers) + failures /\ failures' \in Nat
      BY <1>t, <1>k, <2>1, <2>5, <2>6
    <3> QED BY <1>t, <1>m, <2>1, <2>5, <3>1
  <2>11. count' > 0 /\ ttl' = Forever => stuck' \/ Expiring(callers')
    BY <1>0, <1>t, <2>1, <2>2
  <2> QED BY <2>3, <2>4, <2>10, <2>11 DEF RateInv
<1>6. CASE UNCHANGED rateVars
  BY <1>6, <1>t, <1>u DEF rateVars
<1> QED BY <1>1, <1>2, <1>3, <1>4, <1>5, <1>6 DEF RateNext

\* The community module's sum of what was let through.
LEMMA LimitSum ==
    MapThenSumSet(LAMBDA age : admitted[age], 0 .. LimitWindow - 1) = Lately(admitted, LimitWindow)
BY DEF MapThenSumSet, Lately, SumFunctionOnSet, FoldFunctionOnSet

\* Two windows of the limit, and what Redis refused.
LEMMA RateIsLimited == RateInv => LimiterHolds
<1> SUFFICES ASSUME RateInv PROVE LimiterHolds
  BY Zenon
<1> USE RateAssumption
<1>0. RateTypeOK /\ OneExpires /\ WindowsApart /\ (count > 0 /\ ttl = Forever => stuck \/ Expiring(callers))
  BY DEF RateInv
<1>1. OfThisKey(count, callers) \in 0 .. Capacity /\ failures \in Nat
  BY <1>0, KeyHolds, SMTT(20) DEF RateTypeOK, OneExpires
<1>2. Lately(admitted, LimitWindow) \in Nat
  <2>1. admitted \in [LimitAges -> Nat] /\ LimitWindow \in 0 .. LimitWindow
    BY <1>0 DEF RateTypeOK, LimitAges
  <2> QED BY <2>1, LatelyIsNatural DEF Lately
<1>3. Lately(admitted, LimitWindow) <= 2 * Capacity + failures
  BY <1>0, <1>1, <1>2 DEF WindowsApart, Apart
<1>4. MapThenSumSet(LAMBDA age : admitted[age], 0 .. LimitWindow - 1) <= 2 * Capacity + failures
  BY <1>3, LimitSum
<1> QED BY <1>0, <1>4 DEF LimiterHolds, Expiring

\* No address has more passwords compared within the lockout's time than it has
\* attempts; no principal gets more than twice the limit through within a window's
\* length, refusals of Redis aside, and a key whose EXPIRE is not on its way has a TTL
\* unless that was refused.  For any limits, windows and number of requests in hand.
THEOREM LimitsAreKept == LoginSpec /\ RateSpec => []LimitsHold
<1>1. LockoutInv => LockoutHolds
  BY DEF LockoutInv
<1>2. LockoutHolds /\ LimiterHolds => LimitsHold
  BY DEF LimitsHold
<1> QED BY <1>1, <1>2, LockoutStarts, LockoutGoesOn, RateStarts, RateGoesOn, RateIsLimited, PTL
        DEF LoginSpec, RateSpec
=============================================================================

-------------------------- MODULE RecognitionBuffer --------------------------
(***************************************************************************)
(* services/notifier/src/recognition_buffer.py: detections held back for   *)
(* their face recognition, by two threads.  The subscribe loop of          *)
(* services/notifier/src/main.py submits detections and recognitions in    *)
(* the order in which Redis delivers them and calls stop(); the buffer's   *)
(* own thread, _run, hands on what has waited too long.                    *)
(*                                                                         *)
(* _run keeps the buffer's lock while it dispatches; the other methods     *)
(* dispatch after they released it.  A step of the loop that takes the     *)
(* lock is possible only while _run is not inside.  Event deadlines are    *)
(* kept as the ticks that remain.                                          *)
(***************************************************************************)
EXTENDS Naturals, FiniteSets

CONSTANTS
    Events,     \* detection events
    Tokens,     \* feedback tokens
    TokenOf,    \* TokenOf[e]: the token of e, or NoToken
    NoToken,
    NoEvent,
    Window      \* coalesce_seconds, in ticks

ASSUME BufferAssumption ==
    /\ NoToken \notin Tokens /\ NoEvent \notin Events
    /\ TokenOf \in [Events -> Tokens \cup {NoToken}]
    /\ Window \in Nat \ {0}

VARIABLES
    pending,     \* _pending: token -> event, or NoEvent
    heap,        \* the events in _heap
    left,        \* left[e]: ticks to e's deadline
    worker,      \* where _run is, what it found expired, what it dispatches
    loop,        \* where the subscribe loop is
    shutdown,    \* _shutdown is set
    submitted,   \* events submit_detection has accepted
    replaced,    \* events a later one with the same token took the place of
    annotated,   \* dispatched with a recognition
    bare,        \* dispatched without
    dispatches,  \* dispatches[e]: calls of on_dispatch for e, up to Many
    heard        \* events whose recognition the loop has received

bufferVars == <<pending, heap, left, worker, loop, shutdown, submitted, replaced, annotated, bare,
          dispatches, heard>>

Many == 2
OneMore(n) == IF n < Many THEN n + 1 ELSE Many

Waiting == [at |-> "waiting", due |-> {}, event |-> NoEvent]
Ready == [at |-> "ready", token |-> NoToken, event |-> NoEvent, batch |-> {}]

BufferTypeOK ==
    /\ pending \in [Tokens -> Events \cup {NoEvent}]
    /\ heap \subseteq Events
    /\ left \in [Events -> 0 .. Window]
    /\ worker \in [at : {"waiting", "asking", "expiring", "dispatching", "ended"},
                   due : SUBSET Events, event : Events \cup {NoEvent}]
    /\ loop \in [at : {"ready", "asking", "dispatching", "joining", "flushing", "stopped"},
                 token : Tokens \cup {NoToken}, event : Events \cup {NoEvent},
                 batch : SUBSET Events]
    /\ shutdown \in BOOLEAN
    /\ submitted \subseteq Events /\ replaced \subseteq Events
    /\ annotated \subseteq Events /\ bare \subseteq Events
    /\ dispatches \in [Events -> 0 .. Many]
    /\ heard \subseteq Events

BufferInit ==
    /\ pending = [t \in Tokens |-> NoEvent]
    /\ heap = {}
    /\ left = [e \in Events |-> 0]
    /\ worker = Waiting
    /\ loop = Ready
    /\ shutdown = FALSE
    /\ submitted = {} /\ replaced = {} /\ annotated = {} /\ bare = {}
    /\ dispatches = [e \in Events |-> 0]
    /\ heard = {}

-----------------------------------------------------------------------------
\* _run is between `with self._lock` and its end.
Locked == worker.at \in {"expiring", "dispatching"}

Deliver(e) == dispatches' = [dispatches EXCEPT ![e] = OneMore(@)]

\* submit_detection without a token: dispatched at once.
SubmitWithoutToken(e) ==
    /\ loop.at = "ready"
    /\ e \notin submitted
    /\ TokenOf[e] = NoToken
    /\ submitted' = submitted \cup {e}
    /\ Deliver(e)
    /\ bare' = bare \cup {e}
    /\ UNCHANGED <<pending, heap, left, worker, loop, shutdown, replaced, annotated, heard>>

\* Mutant: the entry does not get into the heap.
SubmitOutsideHeap(e) ==
    /\ loop.at = "ready"
    /\ ~Locked
    /\ e \notin submitted
    /\ TokenOf[e] # NoToken
    /\ submitted' = submitted \cup {e}
    /\ replaced' = replaced \cup ({pending[TokenOf[e]]} \ {NoEvent})
    /\ pending' = [pending EXCEPT ![TokenOf[e]] = e]
    /\ left' = [left EXCEPT ![e] = Window]
    /\ UNCHANGED <<heap, worker, loop, shutdown, annotated, bare, dispatches, heard>>

\* submit_detection: hold the event for its recognition; an event with the
\* same token is overwritten, and its heap node stays.  The deadline counts
\* from here; the code reads the clock just before it asks for the lock.
SubmitDetection(e) ==
    /\ loop.at = "ready"
    /\ ~Locked
    /\ e \notin submitted
    /\ TokenOf[e] # NoToken
    /\ submitted' = submitted \cup {e}
    /\ replaced' = replaced \cup ({pending[TokenOf[e]]} \ {NoEvent})
    /\ pending' = [pending EXCEPT ![TokenOf[e]] = e]
    /\ heap' = heap \cup {e}
    /\ left' = [left EXCEPT ![e] = Window]
    /\ UNCHANGED <<worker, loop, shutdown, annotated, bare, dispatches, heard>>

\* A recognition arrives: the recognizer sends one for each detection it saw.
ReceiveRecognition(e) ==
    /\ loop.at = "ready"
    /\ e \in submitted \ heard
    /\ TokenOf[e] # NoToken
    /\ heard' = heard \cup {e}
    /\ loop' = [loop EXCEPT !.at = "asking", !.token = TokenOf[e]]
    /\ UNCHANGED <<pending, heap, left, worker, shutdown, submitted, replaced, annotated, bare,
                   dispatches>>

\* Mutant: the entry is read, not popped.
TakeRecognizedLeavesEntry ==
    /\ loop.at = "asking"
    /\ ~Locked
    /\ LET e == pending[loop.token] IN
         loop' = IF e = NoEvent THEN Ready ELSE [Ready EXCEPT !.at = "dispatching", !.event = e]
    /\ UNCHANGED <<pending, heap, left, worker, shutdown, submitted, replaced, annotated, bare,
                   dispatches, heard>>

\* Mutant: a missing entry is not recognised as such and is dispatched.
TakeRecognizedUnchecked ==
    /\ loop.at = "asking"
    /\ ~Locked
    /\ loop' = [Ready EXCEPT !.at = "dispatching", !.event = pending[loop.token]]
    /\ pending' = [pending EXCEPT ![loop.token] = NoEvent]
    /\ UNCHANGED <<heap, left, worker, shutdown, submitted, replaced, annotated, bare,
                   dispatches, heard>>

\* submit_recognition under the lock: pop the entry of that token, if any.
TakeRecognized ==
    /\ loop.at = "asking"
    /\ ~Locked
    /\ LET e == pending[loop.token] IN
         loop' = IF e = NoEvent THEN Ready ELSE [Ready EXCEPT !.at = "dispatching", !.event = e]
    /\ pending' = [pending EXCEPT ![loop.token] = NoEvent]
    /\ UNCHANGED <<heap, left, worker, shutdown, submitted, replaced, annotated, bare,
                   dispatches, heard>>

\* ... and dispatch it, annotated, without the lock.
DispatchAnnotated ==
    /\ loop.at = "dispatching"
    /\ Deliver(loop.event)
    /\ annotated' = annotated \cup {loop.event}
    /\ loop' = Ready
    /\ UNCHANGED <<pending, heap, left, worker, shutdown, submitted, replaced, bare, heard>>

-----------------------------------------------------------------------------
\* Mutant: every node counts as expired.
ReadClockIgnoresDeadline ==
    /\ worker.at = "waiting"
    /\ worker' = IF shutdown THEN [Waiting EXCEPT !.at = "ended"]
                 ELSE [Waiting EXCEPT !.at = "asking", !.due = heap]
    /\ UNCHANGED <<pending, heap, left, loop, shutdown, submitted, replaced, annotated, bare,
                   dispatches, heard>>

\* _run looks at the clock ...
ReadClock ==
    /\ worker.at = "waiting"
    /\ worker' = IF shutdown THEN [Waiting EXCEPT !.at = "ended"]
                 ELSE [Waiting EXCEPT !.at = "asking", !.due = {e \in heap : left[e] = 0}]
    /\ UNCHANGED <<pending, heap, left, loop, shutdown, submitted, replaced, annotated, bare,
                   dispatches, heard>>

\* ... and takes the lock.
TakeLock ==
    /\ worker.at = "asking"
    /\ worker' = [worker EXCEPT !.at = "expiring"]
    /\ UNCHANGED <<pending, heap, left, loop, shutdown, submitted, replaced, annotated, bare,
                   dispatches, heard>>

Current(e) == pending[TokenOf[e]] = e

\* Mutant: a popped node is dispatched without looking whether it is current.
ExpireStale(e) ==
    /\ worker.at = "expiring"
    /\ e \in worker.due \cap heap
    /\ heap' = heap \ {e}
    /\ pending' = [pending EXCEPT ![TokenOf[e]] = NoEvent]
    /\ worker' = [worker EXCEPT !.at = "dispatching", !.event = e]
    /\ UNCHANGED <<left, loop, shutdown, submitted, replaced, annotated, bare, dispatches, heard>>

\* An expired node is popped.  If its event was overwritten or already taken
\* it is skipped, otherwise it leaves _pending and is dispatched.
ExpireEntry(e) ==
    /\ worker.at = "expiring"
    /\ e \in worker.due \cap heap
    /\ heap' = heap \ {e}
    /\ \/ /\ Current(e)
          /\ pending' = [pending EXCEPT ![TokenOf[e]] = NoEvent]
          /\ worker' = [worker EXCEPT !.at = "dispatching", !.event = e]
       \/ /\ ~Current(e)
          /\ UNCHANGED <<pending, worker>>
    /\ UNCHANGED <<left, loop, shutdown, submitted, replaced, annotated, bare, dispatches, heard>>

DispatchExpired ==
    /\ worker.at = "dispatching"
    /\ Deliver(worker.event)
    /\ bare' = bare \cup {worker.event}
    /\ worker' = [worker EXCEPT !.at = "expiring", !.event = NoEvent]
    /\ UNCHANGED <<pending, heap, left, loop, shutdown, submitted, replaced, annotated, heard>>

\* Nothing of what was expired is left: release the lock and wait.
ReleaseLock ==
    /\ worker.at = "expiring"
    /\ worker.due \cap heap = {}
    /\ worker' = Waiting
    /\ UNCHANGED <<pending, heap, left, loop, shutdown, submitted, replaced, annotated, bare,
                   dispatches, heard>>

-----------------------------------------------------------------------------
\* stop(): set the flag and join the thread ...
Stop ==
    /\ loop.at = "ready"
    /\ shutdown' = TRUE
    /\ loop' = [loop EXCEPT !.at = "joining"]
    /\ UNCHANGED <<pending, heap, left, worker, submitted, replaced, annotated, bare,
                   dispatches, heard>>

\* ... or give up joining after 5 s, so the thread may still run here; then
\* _flush_all takes everything out under the lock ...
FlushPending ==
    /\ loop.at = "joining"
    /\ ~Locked
    /\ loop' = [loop EXCEPT !.at = "flushing", !.batch = {pending[t] : t \in Tokens} \ {NoEvent}]
    /\ pending' = [t \in Tokens |-> NoEvent]
    /\ heap' = {}
    /\ UNCHANGED <<left, worker, shutdown, submitted, replaced, annotated, bare, dispatches, heard>>

\* ... and dispatches it without the lock.
FlushOne(e) ==
    /\ loop.at = "flushing"
    /\ e \in loop.batch
    /\ Deliver(e)
    /\ bare' = bare \cup {e}
    /\ loop' = [loop EXCEPT !.batch = @ \ {e}]
    /\ UNCHANGED <<pending, heap, left, worker, shutdown, submitted, replaced, annotated, heard>>

BufferStopped ==
    /\ loop.at = "flushing"
    /\ loop.batch = {}
    /\ loop' = [loop EXCEPT !.at = "stopped"]
    /\ UNCHANGED <<pending, heap, left, worker, shutdown, submitted, replaced, annotated, bare,
                   dispatches, heard>>

\* A tick passes.  A dispatch, which is network I/O, may take any number of
\* them; the loop waits before the lock for a tick only because of one.
BufferTick ==
    /\ \E e \in heap : left[e] > 0
    /\ loop.at = "asking" => worker.at = "dispatching"
    /\ left' = [e \in Events |-> IF left[e] > 0 THEN left[e] - 1 ELSE 0]
    /\ UNCHANGED <<pending, heap, worker, loop, shutdown, submitted, replaced, annotated, bare,
                   dispatches, heard>>

WorkerStep ==
    \/ ReadClock \/ TakeLock \/ DispatchExpired \/ ReleaseLock
    \/ \E e \in Events : ExpireEntry(e)

LoopFinishes ==
    \/ TakeRecognized \/ DispatchAnnotated \/ FlushPending \/ BufferStopped
    \/ \E e \in Events : FlushOne(e)

BufferNext ==
    \/ WorkerStep
    \/ LoopFinishes
    \/ \E e \in Events : SubmitWithoutToken(e) \/ SubmitDetection(e) \/ ReceiveRecognition(e)
    \/ Stop
    \/ BufferTick

BufferSpec == BufferInit /\ [][BufferNext]_bufferVars

\* Both threads run on and time passes; nothing has to be submitted and
\* nobody has to stop the buffer.  The loop can lose the race for the lock to
\* _run, which takes it every 100 ms, but not for ever: _run waits outside the
\* lock after every round.  Hence strong fairness for the loop.
BufferFairness ==
    /\ WF_bufferVars(WorkerStep)
    /\ SF_bufferVars(LoopFinishes)
    /\ WF_bufferVars(BufferTick)

BufferFairSpec == BufferSpec /\ BufferFairness

-----------------------------------------------------------------------------
\* Where a held event is, on its way to on_dispatch.
InHand(e) ==
    \/ worker.at = "dispatching" /\ worker.event = e
    \/ loop.at = "dispatching" /\ loop.event = e
    \/ loop.at = "flushing" /\ e \in loop.batch

IsPending(e) == \E t \in Tokens : pending[t] = e

\* However recognition, timeout and shutdown race, an event is dispatched at
\* most once, and it is nowhere else once it is in somebody's hand.
DispatchedAtMostOnce ==
    \A e \in Events :
        /\ dispatches[e] <= 1
        /\ dispatches[e] = 1 => ~InHand(e) /\ ~IsPending(e)
        /\ ~(InHand(e) /\ IsPending(e))

\* ... and it is not lost on the way: what was accepted is pending, in
\* somebody's hand, dispatched or replaced.
NothingDropped ==
    \A e \in submitted : IsPending(e) \/ InHand(e) \/ dispatches[e] > 0 \/ e \in replaced

\* The timeout finds every pending event: _pending never names one that is not
\* in _heap, and an event is only in _heap or _pending under its own token.
PendingIsInHeap ==
    \A t \in Tokens : pending[t] # NoEvent => pending[t] \in heap /\ TokenOf[pending[t]] = t

\* No event is handed on bare before its window is over, except at shutdown.
NoEarlyTimeout ==
    [][\A e \in bare' \ bare : left[e] = 0 \/ shutdown \/ TokenOf[e] = NoToken]_bufferVars

\* An accepted detection reaches dispatch() or is replaced: no recognition, no
\* slow dispatch and no shutdown keeps it for ever.
EventuallyDispatched ==
    \A e \in Events : []<>(e \in submitted => dispatches[e] > 0 \/ e \in replaced)

\* The buffer implements Coalescing: what is pending or in somebody's hand is
\* held.
FateOf(e) ==
    IF e \in annotated THEN "annotated"
    ELSE IF e \in bare THEN "bare"
    ELSE IF e \in replaced THEN "replaced"
    ELSE IF e \in submitted THEN "held"
    ELSE "new"

SameToken(x, y) == TokenOf[x] # NoToken /\ TokenOf[x] = TokenOf[y]

Promise == INSTANCE Coalescing WITH fate <- [e \in Events |-> FateOf(e)]

ImplementsCoalescing == Promise!AbsSpec

\* However a recognition, the timeout and the shutdown race for an event, it is
\* dispatched once or replaced, and the timeout can find what is pending.
BufferHolds == BufferTypeOK /\ DispatchedAtMostOnce /\ NothingDropped /\ PendingIsInHeap
=============================================================================

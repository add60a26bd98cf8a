---------------------------- MODULE PressDelivery ----------------------------
(***************************************************************************)
(* A button press on its way from the doorbell to the host's event table   *)
(* and to openring:doorbell: PressQueue on the device, PressHandler on the *)
(* host, and the HTTP requests between them.                               *)
(*                                                                         *)
(* Each flush thread waits for at most one request, its live one.  A       *)
(* request whose client gave up (10 s timeout) or died is late: the host   *)
(* goes on handling it and nobody reads the answer.  One late request is   *)
(* kept per thread (a bound), and MaxFaults bounds what goes wrong.        *)
(***************************************************************************)
EXTENDS PressQueue

CONSTANTS
    MaxFaults,   \* failures in one behaviour (a bound)
    NoRequest

ASSUME FaultsAssumption == MaxFaults \in Nat

VARIABLES
    request, rows, published, paired, redisUp,   \* of PressHandler
    gone,     \* presses the device has given up, for a reason the code states
    faults    \* failures so far

hostVars == <<request, rows, published, paired, redisUp>>

Live(f) == <<f, "live">>
Late(f) == <<f, "late">>
Slots == Flushers \X {"live", "late"}

Host == INSTANCE PressHandler WITH Press <- Presses

pressVars == <<queueVars, hostVars, gone, faults>>

PressInit == QueueInit /\ Host!HandlerInit /\ gone = {} /\ faults = 0

-----------------------------------------------------------------------------
\* Every failure is charged to the budget.
Fault == faults < MaxFaults /\ faults' = faults + 1
NoFault == UNCHANGED faults

Charge(result) == IF result = "saved" THEN NoFault ELSE Fault

Asks(p) == [press |-> p, stage |-> "arrived"]

\* A push.  What a full queue drops is gone.
Push ==
    \E result \in SaveResults :
        /\ OnPress(result)
        /\ Charge(result)
        /\ gone' = gone \cup (ToSet(pressQueue) \ ToSet(pressQueue'))
        /\ UNCHANGED hostVars

Look(f) == TakeHead(f) /\ NoFault /\ UNCHANGED <<hostVars, gone>>

Flush == PeriodicFlush /\ NoFault /\ UNCHANGED <<hostVars, gone>>

\* requests.post: the request reaches the host.
Post(f) ==
    /\ Send(f)
    /\ request' = [request EXCEPT ![Live(f)] = Asks(flush[f].press)]
    /\ NoFault
    /\ UNCHANGED <<rows, published, paired, redisUp, gone>>

Forget(s) == request' = [request EXCEPT ![s] = NoRequest]

\* A 202 or a 401 arrives.
ReadFinalAnswer(f) ==
    /\ Host!At(Live(f), "202") \/ Host!At(Live(f), "4xx")
    /\ Answered(f)
    /\ gone' = IF Host!At(Live(f), "4xx") THEN gone \cup {flush[f].press} ELSE gone
    /\ Forget(Live(f))
    /\ NoFault
    /\ UNCHANGED <<rows, published, paired, redisUp>>

\* A 500 arrives, or the connection breaks and there is no answer to wait for.
ReadFailure(f) ==
    /\ request[Live(f)] = NoRequest \/ Host!At(Live(f), "500")
    /\ AttemptFails(f)
    /\ Forget(Live(f))
    /\ NoFault
    /\ UNCHANGED <<rows, published, paired, redisUp, gone>>

\* 10 s without an answer: the client gives the attempt up, the host does not.
TimeOut(f) ==
    /\ request[Live(f)] # NoRequest
    /\ request[Late(f)] = NoRequest
    /\ AttemptFails(f)
    /\ request' = [request EXCEPT ![Live(f)] = NoRequest, ![Late(f)] = request[Live(f)]]
    /\ Fault
    /\ UNCHANGED <<rows, published, paired, redisUp, gone>>

Pop(f) ==
    \E result \in SaveResults :
        /\ PopDelivered(f, result)
        /\ Charge(result)
        /\ UNCHANGED <<hostVars, gone>>

\* A request that the host has not seen, or its answer, is lost on the way.
Lose(f) ==
    /\ \E stage \in {"arrived", "202", "4xx", "500"} : Host!At(Live(f), stage)
    /\ Forget(Live(f))
    /\ Fault
    /\ UNCHANGED <<queueVars, rows, published, paired, redisUp, gone>>

\* Nobody reads the answer to a late request.
DropLateAnswer(f) ==
    /\ \E stage \in {"202", "4xx", "500"} : Host!At(Late(f), stage)
    /\ Forget(Late(f))
    /\ NoFault
    /\ UNCHANGED <<queueVars, rows, published, paired, redisUp, gone>>

HandlerStep(s) ==
    /\ Host!Handle(s)
    /\ NoFault
    /\ UNCHANGED <<queueVars, gone>>

HandlerFails(s) == Host!InsertRaises(s) /\ Fault /\ UNCHANGED <<queueVars, gone>>

\* The button service stops: what the file does not hold is gone with it.
DeviceDies ==
    \E whileSaving \in BOOLEAN :
        /\ Die(whileSaving)
        /\ \A f \in Flushers : request[Live(f)] = NoRequest \/ request[Late(f)] = NoRequest
        /\ gone' = gone \cup (ToSet(pressQueue) \ ToSet(disk'))
        /\ request' = [s \in Slots |->
                         IF s[2] = "live" THEN NoRequest
                         ELSE IF request[s] # NoRequest THEN request[s]
                         ELSE request[Live(s[1])]]
        /\ Fault
        /\ UNCHANGED <<rows, published, paired, redisUp>>

DeviceRestarts == Restart /\ NoFault /\ UNCHANGED <<hostVars, gone>>

HostFault ==
    /\ Host!WebCrash \/ Host!RedisFails \/ Host!Unpair
    /\ Fault
    /\ UNCHANGED <<queueVars, gone>>

RedisIsRestarted == Host!RedisReturns /\ NoFault /\ UNCHANGED <<queueVars, gone>>

DeviceIsPaired == Host!Pair /\ NoFault /\ UNCHANGED <<queueVars, gone>>

ClientStep(f) == Look(f) \/ Post(f) \/ ReadFinalAnswer(f) \/ ReadFailure(f) \/ Pop(f)

PressNext ==
    \/ Push \/ Flush
    \/ \E f \in Flushers : ClientStep(f) \/ TimeOut(f) \/ Lose(f) \/ DropLateAnswer(f)
    \/ \E s \in Slots : HandlerStep(s) \/ HandlerFails(s)
    \/ DeviceDies \/ DeviceRestarts \/ HostFault \/ RedisIsRestarted \/ DeviceIsPaired

PressSpec == PressInit /\ [][PressNext]_pressVars

\* The threads of the device and the handlers of the host run on, the retry
\* thread comes back every 30 s, systemd and Docker restart what stopped
\* (Restart=always, restart: unless-stopped).  Nobody has to push the button
\* or pair the device.
PressFairness ==
    /\ WF_pressVars(Flush)
    /\ \A f \in Flushers : WF_pressVars(ClientStep(f))
    /\ \A s \in Slots : WF_pressVars(HandlerStep(s))
    /\ WF_pressVars(DeviceRestarts)
    /\ WF_pressVars(RedisIsRestarted)

PressFairSpec == PressSpec /\ PressFairness

-----------------------------------------------------------------------------
\* Types, and QUEUE_MAX: neither the deque nor its file ever holds more.
PressTypeOK ==
    /\ QueueTypeOK
    /\ Host!HandlerTypeOK
    /\ gone \subseteq Presses
    /\ faults \in 0 .. MaxFaults

\* Whatever the flush threads do to each other's heads, the file holds the
\* queue once a save of this run has succeeded and none has failed since, so a
\* clean stop loses nothing and repeats nothing.
SavedQueueIsCurrent == up /\ saved => disk = pressQueue

\* Where press p still is on the device.
OnDevice(p) == Contains(IF up THEN pressQueue ELSE disk, p)

\* A press leaves the device without having been published to the notifier in
\* three ways only: pushed out of a full queue, refused with a 4xx, or missing
\* from the file when the service stopped.  Concurrent flush threads, retries,
\* timeouts, lost answers and crashes of the host never drop one.
NoPressSilentlyDropped ==
    \A p \in 1 .. pressed : OnDevice(p) \/ published[p] > 0 \/ p \in gone

\* The host records presses in the order of the pushes: when a press has its
\* row, every older one has its row too or has been given up.
RecordedInOrder ==
    \A p, q \in 1 .. pressed : p < q /\ rows[q] > 0 => rows[p] > 0 \/ p \in gone

\* Every push is published or given up in the end: no thread gets stuck and
\* the retry thread does come back to what a failed flush left behind.
EveryPressSettles ==
    \A p \in Presses : []<>(p <= pressed => published[p] > 0 \/ p \in gone)

\* docs/FIRMWARE.md:135 wants presses to be "a single retried POST with
\* idempotency key": a push then yields one event row however often it is
\* posted.
RecordedOnce == \A p \in Presses : rows[p] <= 1

\* Flush threads, timeouts, lost answers and crashes on both sides leave the
\* presses accounted for: in the queue and its file, in order at the host, or
\* given up for a reason the code states.
PressHolds == PressTypeOK /\ SavedQueueIsCurrent /\ NoPressSilentlyDropped /\ RecordedInOrder
=============================================================================

------------------------------ MODULE MCWaiting ------------------------------
(***************************************************************************)
(* The parts of the system that wait for a turn, an answer or a clock, each *)
(* explored on its own: `part` says which, and the others stay asleep.     *)
(*                                                                         *)
(*   lock      four camera threads on one detector: an owner, a thread     *)
(*             that has been handed the lock, and two that could be        *)
(*             reordered behind them                                       *)
(*   buffer    an event that is republished under its token (e1, then e2), *)
(*             one with a token of its own (e3) and one without (e4)       *)
(*   press     a full queue left by an earlier run of the service: the     *)
(*             retry thread and the flush thread of a new press, which     *)
(*             drops the oldest one, hold the same head or each its own    *)
(*   devices   one doorbell, paired up to three times; doorbells meet only *)
(*             in the pairing window and in the order of a pass, which may *)
(*             take any time before it comes to the one here               *)
(*   lockout   the default of five attempts                                *)
(*   rearm     two clicks in hand at the dashboard, one failure            *)
(*   rate      two requests in hand on a limit of two                      *)
(***************************************************************************)
EXTENDS FairLock, RecognitionBuffer, PressDelivery, DoorbellDevices, LoginLockout, Rearm, RateLimit,
        TLC

CONSTANTS e1, e2, e3, e4, k1, k2, door

VARIABLE part

MCTokenOf == (e1 :> k1) @@ (e2 :> k1) @@ (e3 :> k2) @@ (e4 :> NoToken)
MCTimeouts == door :> 1

waitingVars == <<part, vars, bufferVars, pressVars, devicesVars, loginVars, rearmVars, rateVars>>

-----------------------------------------------------------------------------
\* No press is on its way: the state of a doorbell nobody has ever rung.
NoPressEver ==
    /\ up = TRUE /\ pressed = 0 /\ pressQueue = <<>> /\ disk = <<>> /\ saved = TRUE
    /\ flush = [f \in Flushers |-> Stopped]
    /\ Host!HandlerInit
    /\ gone = {} /\ faults = 0

WaitingInit ==
    /\ part \in {"lock", "buffer", "press", "devices", "lockout", "rearm", "rate"}
    /\ Init /\ BufferInit /\ DevicesInit /\ LoginInit /\ RearmInit /\ RateInit
    /\ IF part = "press" THEN PressInit ELSE NoPressEver
    /\ part # "rearm" => ~armed /\ ~scheduled

LockPart == UNCHANGED <<bufferVars, pressVars, devicesVars, loginVars, rearmVars, rateVars>> /\ Next
BufferPart == UNCHANGED <<vars, pressVars, devicesVars, loginVars, rearmVars, rateVars>> /\ BufferNext
PressPart == UNCHANGED <<vars, bufferVars, devicesVars, loginVars, rearmVars, rateVars>> /\ PressNext
DevicesPart == UNCHANGED <<vars, bufferVars, pressVars, loginVars, rearmVars, rateVars>> /\ DevicesNext
LockoutPart == UNCHANGED <<vars, bufferVars, pressVars, devicesVars, rearmVars, rateVars>> /\ LoginNext
RearmPart == UNCHANGED <<vars, bufferVars, pressVars, devicesVars, loginVars, rateVars>> /\ RearmNext
RatePart == UNCHANGED <<vars, bufferVars, pressVars, devicesVars, loginVars, rearmVars>> /\ RateNext

WaitingNext ==
    /\ UNCHANGED part
    /\ \/ part = "lock" /\ LockPart
       \/ part = "buffer" /\ BufferPart
       \/ part = "press" /\ PressPart
       \/ part = "devices" /\ DevicesPart
       \/ part = "lockout" /\ LockoutPart
       \/ part = "rearm" /\ RearmPart
       \/ part = "rate" /\ RatePart

\* The fairness of each part, as its module states it, while it is the one that
\* runs: a part that sleeps owes no step.
WaitingFairness ==
    /\ \A t \in Threads : 
          /\ WF_vars(part = "lock" /\ (Wake(t) \/ Withdraw(t)))
          /\ WF_vars(part = "lock" /\ Release(t))
    /\ WF_bufferVars(part = "buffer" /\ WorkerStep)
    /\ SF_bufferVars(part = "buffer" /\ LoopFinishes)
    /\ WF_bufferVars(part = "buffer" /\ BufferTick)
    /\ WF_pressVars(part = "press" /\ Flush)
    /\ \A f \in Flushers : WF_pressVars(part = "press" /\ ClientStep(f))
    /\ \A s \in Slots : WF_pressVars(part = "press" /\ HandlerStep(s))
    /\ WF_pressVars(part = "press" /\ DeviceRestarts)
    /\ WF_pressVars(part = "press" /\ RedisIsRestarted)
    /\ WF_devicesVars(part = "devices" /\ Watch)
    /\ WF_loginVars(part = "lockout" /\ LoginTick)
    /\ WF_rearmVars(part = "rearm" /\ SchedulerStep)
    /\ WF_rateVars(part = "rate" /\ RateClock)
    /\ \A c \in Callers : WF_rateVars(part = "rate" /\ (Incr(c) \/ SetExpiry(c)))

WaitingSpec == WaitingInit /\ [][WaitingNext]_waitingVars /\ WaitingFairness

-----------------------------------------------------------------------------
\* The doorbell's way to the notifier: its presses, and what the watchdog says
\* of the device itself.
DoorbellHolds == PressHolds /\ DevicesHold

\* What counts attempts and requests lets through no more than it says.
LimitsHold == LockoutHolds /\ LimiterHolds

\* What was locked or put off until a time ends at that time: a lockout, and a
\* disarm that is to be undone.
TimersEnd == LockoutEnds /\ DueKeyIsConsumed
=============================================================================

------------------------------ MODULE PressQueue ------------------------------
(***************************************************************************)
(* services/doorbell-firmware/src/button.py and common.py: the press queue  *)
(* of the doorbell, its copy on disk, and the threads that post its head   *)
(* to the host with retries.                                               *)
(*                                                                         *)
(* A press is the number of the button push, so press p is older than      *)
(* press p + 1.  Thread 0 is "press-retry", which flushes every 30 s;      *)
(* thread p is the "press-flush" thread that on_press starts for press p.  *)
(* What the network and the host answer is decided by PressDelivery.       *)
(***************************************************************************)
EXTENDS Naturals, Sequences, SequencesExt

CONSTANTS
    NumPresses,    \* presses in one behaviour (a bound)
    NumLeft,       \* how many of them an earlier run has left in the file
    QueueMax,      \* QUEUE_MAX
    MaxRetries     \* max_retries of post_to_host

ASSUME PressQueueAssumption ==
    /\ NumPresses \in Nat \ {0}
    /\ QueueMax \in Nat \ {0}
    /\ NumLeft \in 0 .. NumPresses /\ NumLeft <= QueueMax
    /\ MaxRetries \in Nat \ {0}

VARIABLES
    up,        \* the button service runs
    pressed,   \* number of pushes on_press has handled
    pressQueue,     \* the deque in memory
    disk,      \* QUEUE_PATH: a sequence of presses, or Torn
    saved,     \* the last _save_queue of this run of the service succeeded
    flush      \* per thread: where it is in _flush and post_to_host

queueVars == <<up, pressed, pressQueue, disk, saved, flush>>

Presses == 1 .. NumPresses
Flushers == {0} \cup (NumLeft + 1 .. NumPresses)

NoPress == 0

\* A file cut off in the middle of write_text, which json.loads rejects: a
\* sequence that is no queue.
Torn == <<NoPress>>

Stopped == [at |-> "stopped", press |-> NoPress, attempt |-> 0]

QueueTypeOK ==
    /\ up \in BOOLEAN
    /\ pressed \in 0 .. NumPresses
    /\ pressQueue \in Seq(Presses) /\ Len(pressQueue) <= QueueMax
    /\ disk = Torn \/ (disk \in Seq(Presses) /\ Len(disk) <= QueueMax)
    /\ saved \in BOOLEAN
    /\ flush \in [Flushers -> [at : {"stopped", "head", "send", "wait", "discard"},
                               press : Presses \cup {NoPress},
                               attempt : 0 .. MaxRetries]]

QueueInit ==
    /\ up = TRUE
    /\ pressed = NumLeft
    /\ pressQueue = [i \in 1 .. NumLeft |-> i]
    /\ disk = pressQueue
    /\ saved = TRUE
    /\ flush = [f \in Flushers |-> Stopped]

-----------------------------------------------------------------------------
\* _save_queue: the file holds the queue, or OSError is logged and swallowed.
\* The error leaves the old file when it comes from mkdir or open ("refused"),
\* a cut-off file when it comes from the write itself ("cut").
SaveResults == {"saved", "refused", "cut"}

SaveQueue(q, result) ==
    /\ saved' = (result = "saved")
    /\ disk' = CASE result = "saved" -> q
                 [] result = "refused" -> disk
                 [] result = "cut" -> Torn

\* Mutant: the queue is a plain list that nothing bounds.
Unbounded(q) == q

\* deque(maxlen=QUEUE_MAX).append: a full deque drops its oldest element.
Bounded(q) == IF Len(q) > QueueMax THEN Tail(q) ELSE q

AppendPress(q, p) == Bounded(Append(q, p))

Goto(f, place, press, attempt) ==
    flush' = [flush EXCEPT ![f] = [at |-> place, press |-> press, attempt |-> attempt]]

\* on_press: append and save under the lock, then start a flush thread.
OnPress(result) ==
    /\ up
    /\ pressed < NumPresses
    /\ pressed' = pressed + 1
    /\ pressQueue' = AppendPress(pressQueue, pressed')
    /\ SaveQueue(pressQueue', result)
    /\ Goto(pressed', "head", NoPress, 0)
    /\ UNCHANGED up

\* _periodic_flush: shutdown.wait(30) timed out, run _flush.
PeriodicFlush ==
    /\ up
    /\ flush[0] = Stopped
    /\ Goto(0, "head", NoPress, 0)
    /\ UNCHANGED <<up, pressed, pressQueue, disk, saved>>

\* Mutant: the newest press is posted first.
TakeNewest(f) ==
    /\ flush[f].at = "head"
    /\ IF pressQueue = <<>> THEN flush' = [flush EXCEPT ![f] = Stopped]
                       ELSE Goto(f, "send", Last(pressQueue), 1)
    /\ UNCHANGED <<up, pressed, pressQueue, disk, saved>>

\* The top of _flush's loop: return on an empty queue, else post its head.
TakeHead(f) ==
    /\ flush[f].at = "head"
    /\ IF pressQueue = <<>> THEN flush' = [flush EXCEPT ![f] = Stopped]
                       ELSE Goto(f, "send", Head(pressQueue), 1)
    /\ UNCHANGED <<up, pressed, pressQueue, disk, saved>>

\* post_to_host hands the request to the network.
Send(f) ==
    /\ flush[f].at = "send"
    /\ Goto(f, "wait", flush[f].press, flush[f].attempt)
    /\ UNCHANGED <<up, pressed, pressQueue, disk, saved>>

\* A 5xx answer or a RequestException: sleep and retry, or return None, upon
\* which _flush returns and leaves the press queued.
AttemptFails(f) ==
    /\ flush[f].at = "wait"
    /\ IF flush[f].attempt < MaxRetries
       THEN Goto(f, "send", flush[f].press, flush[f].attempt + 1)
       ELSE flush' = [flush EXCEPT ![f] = Stopped]
    /\ UNCHANGED <<up, pressed, pressQueue, disk, saved>>

\* A 2xx or 4xx answer: _flush goes on to discard the press.
Answered(f) ==
    /\ flush[f].at = "wait"
    /\ Goto(f, "discard", flush[f].press, 0)
    /\ UNCHANGED <<up, pressed, pressQueue, disk, saved>>

\* Mutant: the pop is not written back to the file.
PopWithoutSave(f, result) ==
    /\ flush[f].at = "discard"
    /\ pressQueue' = IF pressQueue # <<>> /\ Head(pressQueue) = flush[f].press THEN Tail(pressQueue) ELSE pressQueue
    /\ Goto(f, "head", NoPress, 0)
    /\ UNCHANGED <<up, pressed, disk, saved>>

\* Under the lock again: pop the press if it is still the head (another thread
\* may have popped or evicted it), save, and go round the loop.
PopDelivered(f, result) ==
    /\ flush[f].at = "discard"
    /\ pressQueue' = IF pressQueue # <<>> /\ Head(pressQueue) = flush[f].press THEN Tail(pressQueue) ELSE pressQueue
    /\ SaveQueue(pressQueue', result)
    /\ Goto(f, "head", NoPress, 0)
    /\ UNCHANGED <<up, pressed>>

\* The process dies, or systemd stops it: the threads are daemons and go with
\* it.  If one of them was inside write_text, the file is left cut off.
Savers == {f \in Flushers : flush[f].at = "discard"}

Die(whileSaving) ==
    /\ up
    /\ whileSaving => Savers # {} \/ pressed < NumPresses
    /\ disk' = IF whileSaving THEN Torn ELSE disk
    /\ up' = FALSE
    /\ pressQueue' = <<>>
    /\ flush' = [f \in Flushers |-> Stopped]
    /\ UNCHANGED <<pressed, saved>>

\* Mutant: the file is not read at startup.
RestartStartsEmpty ==
    /\ ~up
    /\ up' = TRUE
    /\ pressQueue' = <<>>
    /\ saved' = (disk = <<>>)
    /\ UNCHANGED <<pressed, disk, flush>>

\* Restart=always: _load_queue keeps the last QUEUE_MAX items of the file, and
\* starts empty when the file does not parse.  The file itself stays as it is.
Restart ==
    /\ ~up
    /\ up' = TRUE
    /\ pressQueue' = IF disk = Torn THEN <<>> ELSE disk
    /\ saved' = (disk # Torn)
    /\ UNCHANGED <<pressed, disk, flush>>
=============================================================================

------------------------------ MODULE Evaluation ------------------------------
(***************************************************************************)
(* Comparing two models on the labelled snapshots.  A page of the web      *)
(* service (services/web/src/routes/training.py) publishes a request and   *)
(* then polls two Redis keys; the evaluator of the detector                *)
(* (services/detector/src/evaluator.py) takes the requests one by one,     *)
(* runs both models over the same snapshots and writes the keys.  The      *)
(* keys are shared by all requests, and meanwhile the retention cleaner    *)
(* may delete a snapshot.                                                  *)
(***************************************************************************)
EXTENDS Naturals, FiniteSets, Sequences, SequencesExt, FiniteSetsExt

CONSTANTS
    EvalPages,          \* pages that ask for an evaluation
    GroundTruth,    \* the labelled snapshots: a sequence of effective classes
    Predictions,    \* what a model may find on one: sequences of [class, hit]
    MaxEvalFaults   \* bound: lost connections, models that do not load, keys that expire

Boxes == [class : STRING, hit : BOOLEAN]

ASSUME EvaluationAssumption ==
    /\ IsFiniteSet(EvalPages) /\ MaxEvalFaults \in Nat
    /\ GroundTruth \in Seq(STRING) /\ Predictions \subseteq Seq(Boxes)

VARIABLES
    evalPage,     \* each page: where it is, its run, the run it was last told about
    runs,         \* evaluations asked for
    evalQueue,    \* openring:eval:request, as the evaluator's subscription holds it
    evaluator,    \* the evaluator: what it does, for which run, and both models' predictions
    evalImages,   \* indices of the snapshots that are still on the disk
    progress,     \* openring:eval:progress
    result,       \* openring:eval:result
    evalFaults

evalVars == <<evalPage, runs, evalQueue, evaluator, evalImages, progress, result, evalFaults>>

Absent == [run |-> 0, status |-> "absent"]
Snapshots == 1 .. Len(GroundTruth)
ClassesSeen == {GroundTruth[i] : i \in Snapshots}
Asleep == [at |-> "away", run |-> 0, truth |-> <<>>, next |-> 1, a |-> <<>>, b |-> <<>>]

EvaluationTypeOK ==
    /\ \A p \in EvalPages : /\ evalPage[p].at \in {"idle", "posted", "streaming", "shown", "gaveUp"}
                        /\ evalPage[p].run \in 0 .. Cardinality(EvalPages)
    /\ runs \in 0 .. Cardinality(EvalPages)
    /\ evaluator.at \in {"away", "listening", "loading", "A", "B", "computing", "resulted"}
    /\ evalImages \subseteq Snapshots
    /\ progress.status \in {"absent", "loading", "running", "computing", "complete", "error"}
    /\ result.status \in {"absent", "complete", "error"}

EvaluationInit ==
    /\ evalPage = [p \in EvalPages |-> [at |-> "idle", run |-> 0, told |-> 0, result |-> 0]]
    /\ runs = 0 /\ evalQueue = <<>>
    /\ evaluator = Asleep
    /\ evalImages = Snapshots
    /\ progress = Absent /\ result = Absent
    /\ evalFaults = 0

EvalFault == evalFaults < MaxEvalFaults /\ evalFaults' = evalFaults + 1

-----------------------------------------------------------------------------
(* The page. *)

\* start_evaluation: a request nobody is subscribed to is gone.
StartEvaluation(p) ==
    /\ evalPage[p].at = "idle"
    /\ runs' = runs + 1
    /\ evalPage' = [evalPage EXCEPT ![p].at = "posted", ![p].run = runs']
    /\ evalQueue' = IF evaluator.at = "away" THEN evalQueue ELSE Append(evalQueue, runs')
    /\ UNCHANGED <<evaluator, evalImages, progress, result, evalFaults>>

\* evaluate_stream: the progress first, and the result once the progress says it is there.
ReadProgress(p) ==
    /\ evalPage[p].at = "posted"
    /\ evalPage' = IF progress.status \in {"complete", "error"}
                   THEN [evalPage EXCEPT ![p].at = "streaming", ![p].told = progress.run]
                   ELSE evalPage
    /\ UNCHANGED <<runs, evalQueue, evaluator, evalImages, progress, result, evalFaults>>

ReadResult(p) ==
    /\ evalPage[p].at = "streaming"
    /\ evalPage' = [evalPage EXCEPT ![p].at = "shown", ![p].result = result.run]
    /\ UNCHANGED <<runs, evalQueue, evaluator, evalImages, progress, result, evalFaults>>

\* Ten minutes of polling are over.
PollingEnds(p) ==
    /\ evalPage[p].at = "posted"
    /\ evalPage' = [evalPage EXCEPT ![p].at = "gaveUp"]
    /\ UNCHANGED <<runs, evalQueue, evaluator, evalImages, progress, result, evalFaults>>

-----------------------------------------------------------------------------
(* The evaluator. *)

EvaluatorSubscribes ==
    /\ evaluator.at = "away"
    /\ evaluator' = [Asleep EXCEPT !.at = "listening"]
    /\ UNCHANGED <<evalPage, runs, evalQueue, evalImages, progress, result, evalFaults>>

EvaluatorLost ==
    /\ evaluator.at # "away" /\ EvalFault
    /\ evaluator' = Asleep /\ evalQueue' = <<>>
    /\ UNCHANGED <<evalPage, runs, evalImages, progress, result>>

\* _publish_error: the result, then the progress.
PublishError ==
    /\ result' = [run |-> evaluator.run, status |-> "error"]
    /\ progress' = [run |-> evaluator.run, status |-> "error"]
    /\ evaluator' = [Asleep EXCEPT !.at = "listening"]

\* ORDER BY id.
InOrder(images) ==
    {s \in [1 .. Cardinality(images) -> images] : \A i, j \in DOMAIN s : i < j => s[i] < s[j]}

\* _handle_request and _load_ground_truth: the labelled events whose snapshot can be found.
TakeRequest ==
    /\ evaluator.at = "listening" /\ evalQueue # <<>>
    /\ evalQueue' = Tail(evalQueue)
    /\ \E truth \in InOrder(evalImages) :
           evaluator' = [Asleep EXCEPT !.at = "loading", !.run = Head(evalQueue), !.truth = truth]
    /\ UNCHANGED <<evalPage, runs, evalImages, progress, result, evalFaults>>

LoadGroundTruth ==
    /\ evaluator.at = "loading"
    /\ IF evaluator.truth = <<>>
       THEN PublishError
       ELSE /\ evaluator' = [evaluator EXCEPT !.at = "A"]
            /\ progress' = [run |-> evaluator.run, status |-> "loading"]
            /\ UNCHANGED result
    /\ UNCHANGED <<evalPage, runs, evalQueue, evalImages, evalFaults>>

\* A slip of the next: a snapshot that cannot be read is passed over.
AddPredictionIfRead(preds, i, found) == IF i \in evalImages THEN Append(preds, found) ELSE preds

\* One snapshot of _run_model: one that cannot be read by now counts as one without detections.
AddPrediction(preds, i, found) == Append(preds, IF i \in evalImages THEN found ELSE <<>>)

RunModelA ==
    /\ evaluator.at = "A"
    /\ IF evaluator.next > Len(evaluator.truth)
       THEN evaluator' = [evaluator EXCEPT !.at = "B", !.next = 1]
       ELSE \E found \in Predictions :
                evaluator' = [evaluator EXCEPT
                    !.next = @ + 1, !.a = AddPrediction(@, evaluator.truth[evaluator.next], found)]
    /\ progress' = [run |-> evaluator.run, status |-> "running"]
    /\ UNCHANGED <<evalPage, runs, evalQueue, evalImages, result, evalFaults>>

RunModelB ==
    /\ evaluator.at = "B"
    /\ IF evaluator.next > Len(evaluator.truth)
       THEN /\ evaluator' = [evaluator EXCEPT !.at = "computing"]
            /\ progress' = [run |-> evaluator.run, status |-> "computing"]
       ELSE /\ \E found \in Predictions :
                   evaluator' = [evaluator EXCEPT
                       !.next = @ + 1, !.b = AddPrediction(@, evaluator.truth[evaluator.next], found)]
            /\ progress' = [run |-> evaluator.run, status |-> "running"]
    /\ UNCHANGED <<evalPage, runs, evalQueue, evalImages, result, evalFaults>>

\* A model does not load.
ModelFails ==
    /\ evaluator.at \in {"A", "B"} /\ EvalFault
    /\ PublishError
    /\ UNCHANGED <<evalPage, runs, evalQueue, evalImages>>

\* _compute_metrics, for one class: hits, surplus and missed.  A snapshot of the class is hit once;
\* every other prediction of the class, there or elsewhere, is a surplus one.
OfClass(preds, c) == Cardinality({j \in DOMAIN preds : preds[j].class = c})
Hit(preds, c) == \E j \in 1 .. Len(preds) : preds[j].class = c /\ preds[j].hit
Metrics(truth, preds, c) ==
    LET judged == 1 .. (IF Len(truth) < Len(preds) THEN Len(truth) ELSE Len(preds))
        mine == {k \in judged : GroundTruth[truth[k]] = c}
        hits == {k \in mine : Hit(preds[k], c)}
    IN  [tp |-> Cardinality(hits),
         fp |-> SumFunctionOnSet([k \in judged |-> OfClass(preds[k], c) - (IF k \in hits THEN 1 ELSE 0)],
                                 judged),
         fn |-> Cardinality(mine \ hits)]

\* A slip of the next: the progress first.
WriteResultLast ==
    IF evaluator.at = "computing"
    THEN /\ progress' = [run |-> evaluator.run, status |-> "complete"]
         /\ evaluator' = [evaluator EXCEPT !.at = "resulted"]
         /\ UNCHANGED result
    ELSE /\ result' = [run |-> evaluator.run, status |-> "complete"]
         /\ evaluator' = [Asleep EXCEPT !.at = "listening"]
         /\ UNCHANGED progress

\* The result is written before the progress that announces it.
WriteResult ==
    IF evaluator.at = "computing"
    THEN /\ result' = [run |-> evaluator.run, status |-> "complete"]
         /\ evaluator' = [evaluator EXCEPT !.at = "resulted"]
         /\ UNCHANGED progress
    ELSE /\ progress' = [run |-> evaluator.run, status |-> "complete"]
         /\ evaluator' = [Asleep EXCEPT !.at = "listening"]
         /\ UNCHANGED result

CompleteEvaluation ==
    /\ evaluator.at \in {"computing", "resulted"}
    /\ WriteResult
    /\ UNCHANGED <<evalPage, runs, evalQueue, evalImages, evalFaults>>

-----------------------------------------------------------------------------
\* The progress lives for five minutes, the result for an hour.
ProgressExpires ==
    /\ progress # Absent /\ EvalFault
    /\ progress' = Absent
    /\ UNCHANGED <<evalPage, runs, evalQueue, evaluator, evalImages, result>>

SnapshotPruned ==
    /\ \E i \in evalImages : evalImages' = evalImages \ {i}
    /\ UNCHANGED <<evalPage, runs, evalQueue, evaluator, progress, result, evalFaults>>

EvaluationNext ==
    \/ \E p \in EvalPages : StartEvaluation(p) \/ ReadProgress(p) \/ ReadResult(p) \/ PollingEnds(p)
    \/ EvaluatorSubscribes \/ EvaluatorLost \/ TakeRequest \/ LoadGroundTruth
    \/ RunModelA \/ RunModelB \/ ModelFails \/ CompleteEvaluation
    \/ ProgressExpires \/ SnapshotPruned

EvaluationSpec == EvaluationInit /\ [][EvaluationNext]_evalVars

-----------------------------------------------------------------------------
\* What a model found of a class on all the snapshots.
Found(preds, c) == SumFunction([k \in DOMAIN preds |-> OfClass(preds[k], c)])

\* Two models are judged by the same snapshots: whatever was deleted while the first or the second
\* ran, each class has as many examples to hit or miss for either, and every detection is counted.
ModelsAreJudgedAlike ==
    evaluator.at \in {"computing", "resulted"} =>
        \A c \in ClassesSeen :
            LET examples == Cardinality({k \in DOMAIN evaluator.truth : GroundTruth[evaluator.truth[k]] = c})
                a == Metrics(evaluator.truth, evaluator.a, c)
                b == Metrics(evaluator.truth, evaluator.b, c)
            IN  /\ a.tp + a.fn = examples /\ b.tp + b.fn = examples
                /\ a.tp + a.fp = Found(evaluator.a, c) /\ b.tp + b.fp = Found(evaluator.b, c)

\* A page that was told an evaluation is over is given the result of that one, or of one that
\* ended after it, never one from before.
ToldResultIsThere ==
    \A p \in EvalPages : evalPage[p].at = "shown" => evalPage[p].result >= evalPage[p].told

\* Events that change while an evaluation runs, and failures, leave its result one
\* that its page can be told.
EvaluationHolds == EvaluationTypeOK /\ ModelsAreJudgedAlike /\ ToldResultIsThere

\* A page is shown the result of the evaluation it asked for.
\* The code does not keep this; TLC refutes it (README, section 3).
ShownResultIsItsOwn ==
    \A p \in EvalPages : evalPage[p].at = "shown" => evalPage[p].result >= evalPage[p].run
=============================================================================

---------------------------- MODULE WorkerTraining ----------------------------
(* What the Node-01 worker does with the rows of a training job: which windows *)
(* of rows it builds, which row's target each of them is compared with, and    *)
(* which status it answers (node_worker.py, _sequence_data and _train_sklearn).*)
(*                                                                             *)
(* A row is known by its part and its place; its features and target values,   *)
(* the fitting and the metrics are left out.                                   *)
EXTENDS Naturals, Sequences

CONSTANT NoWindow     \* architecture names no window, or 0

Parts == {"train", "observation"}
Rows(part, n) == [i \in 1 .. n |-> <<part, i>>]

(* The consecutive windows of w rows, the k-th ending at row k + w - 1.        *)
Windows(rows, w) ==
  [k \in 1 .. (IF w <= Len(rows) THEN Len(rows) - (w - 1) ELSE 0) |-> SubSeq(rows, k, k + (w - 1))]

(* rows[-k:] for a positive k: all of them when there are fewer.               *)
LastRows(rows, k) == IF k < Len(rows) THEN SubSeq(rows, Len(rows) - k + 1, Len(rows)) ELSE rows

(* Observation windows begin in the last window - 1 training rows.             *)
ObservedRows(n, m, w) == LastRows(Rows("train", n), w - 1) \o Rows("observation", m)

TrainWindows(n, w) == Windows(Rows("train", n), w)
ObservationWindows(n, m, w) == Windows(ObservedRows(n, m, w), w)

(* train_indices and obs_indices: the row whose target stands for a window.    *)
TrainTarget(k, w) == <<"train", k + (w - 1)>>
ObservationTarget(k) == <<"observation", k>>

window(data) ==
  IF data.model_kind # "TIME_SERIES_MLP" THEN 1
  ELSE IF data.window = NoWindow THEN 3 ELSE data.window

(* Mutant: only the observation windows are counted.                           *)
Mut_Enough(data) == Len(ObservationWindows(data.train, data.observation, window(data))) >= 1

(* len(X_train) < 2 or len(X_obs) < 1 is refused.                              *)
Enough(data) ==
  /\ Len(TrainWindows(data.train, window(data))) >= 2
  /\ Len(ObservationWindows(data.train, data.observation, window(data))) >= 1

Advanced == {"GRU", "LSTM", "TRANSFORMER", "GRU_REGRESSION", "LSTM_REGRESSION",
             "TRANSFORMER_REGRESSION"}

(* The answer of a training job on a node whose libraries import or do not,    *)
(* and whose fit succeeds or raises.                                           *)
TrainingStatus(data, stack, fits) ==
  IF ~stack THEN "WAITING_DEPENDENCY"
  ELSE IF data.train = 0 \/ data.observation = 0 \/ ~data.outputs THEN "FAILED"
  ELSE IF data.model_kind \in Advanced THEN "WAITING_IMPLEMENTATION"
  ELSE IF data.features /\ (data.model_kind = "TIME_SERIES_MLP" => window(data) >= 2)
            /\ Enough(data) /\ fits
       THEN "COMPLETED" ELSE "FAILED"

-----------------------------------------------------------------------------
(* All rows in the order of time.                                              *)
History(n, m) == Rows("train", n) \o Rows("observation", m)

(* "no_observation_training_leakage" (legacy_factory.py:1169) and              *)
(* "observation_is_read_only" for windows: a model is fitted on training rows  *)
(* alone, and each observation row is predicted once, from the w rows of       *)
(* history that end with it.  With fewer training rows than a window reaches   *)
(* back, the code pairs windows with the targets of other rows; only the       *)
(* minimum of two training windows keeps such a job from being fitted.         *)
Aligned(n, m, w) ==
  /\ \A k \in DOMAIN TrainWindows(n, w) : LET rows == TrainWindows(n, w)[k] IN
       /\ rows[w] = TrainTarget(k, w)
       /\ \A i \in 1 .. w : rows[i][1] = "train"
  /\ Len(ObservationWindows(n, m, w)) = m
  /\ \A k \in 1 .. m : ObservationWindows(n, m, w)[k] = SubSeq(History(n, m), n + k - (w - 1), n + k)
=============================================================================

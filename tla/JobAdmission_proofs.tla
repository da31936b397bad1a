------------------------- MODULE JobAdmission_proofs -------------------------
(* What the worker's windows are for every number of rows and every window,    *)
(* and that no training job completes with others.                             *)
EXTENDS JobAdmission, SequenceTheorems, FiniteSetTheorems, TLAPS

(* Part p has n rows, the i-th of which is <<p, i>>.                           *)
LEMMA RowsFacts ==
  ASSUME NEW p \in Parts, NEW n \in Nat
  PROVE  /\ Rows(p, n) \in Seq(Parts \X Nat) /\ Len(Rows(p, n)) = n
         /\ \A i \in 1 .. n : Rows(p, n)[i] = <<p, i>>
BY DEF Rows

(* A stretch of a sequence: its length and its elements.                       *)
LEMMA StretchFacts ==
  ASSUME NEW S, NEW s \in Seq(S), NEW a \in Nat \ {0}, NEW b \in Nat, b <= Len(s), a <= b + 1
  PROVE  /\ SubSeq(s, a, b) \in Seq(S) /\ Len(SubSeq(s, a, b)) = b - a + 1
         /\ \A i \in 1 .. b - a + 1 : SubSeq(s, a, b)[i] = s[a + i - 1]
<1>1. a \in Int /\ b \in Int /\ \A i \in a .. b : s[i] \in S
  BY ElementOfSeq
<1> QED  BY <1>1, SubSeqProperties

(* The history of a job: n training rows, then m observation rows.             *)
LEMMA HistoryFacts ==
  ASSUME NEW n \in Nat, NEW m \in Nat
  PROVE  /\ History(n, m) \in Seq(Parts \X Nat) /\ Len(History(n, m)) = n + m
         /\ \A i \in 1 .. n : History(n, m)[i] = <<"train", i>>
         /\ \A i \in 1 .. m : History(n, m)[n + i] = <<"observation", i>>
<1> DEFINE T == Rows("train", n)
           O == Rows("observation", m)
<1>1. /\ T \in Seq(Parts \X Nat) /\ O \in Seq(Parts \X Nat) /\ Len(T) = n /\ Len(O) = m
      /\ \A i \in 1 .. n : T[i] = <<"train", i>>
      /\ \A i \in 1 .. m : O[i] = <<"observation", i>>
  BY RowsFacts DEF Parts
<1> HIDE DEF T, O
<1>2. /\ T \o O \in Seq(Parts \X Nat) /\ Len(T \o O) = n + m
      /\ \A i \in 1 .. n + m : (T \o O)[i] = IF i <= n THEN T[i] ELSE O[i - n]
  BY <1>1, ConcatProperties
<1>3. \A i \in 1 .. m : (T \o O)[n + i] = O[i]
  BY <1>2
<1>4. \A i \in 1 .. n : (T \o O)[i] = T[i]
  BY <1>2
<1>5. History(n, m) = T \o O
  BY DEF History, T, O
<1>6. /\ \A i \in 1 .. n : History(n, m)[i] = <<"train", i>>
      /\ \A i \in 1 .. m : History(n, m)[n + i] = <<"observation", i>>
  BY <1>1, <1>3, <1>4, <1>5
<1> QED  BY <1>2, <1>5, <1>6

(* Where the training rows reach back far enough, the rows that the            *)
(* observation windows are cut from are the last rows of the history.          *)
LEMMA ObservedIsHistory ==
  ASSUME NEW n \in Nat, NEW m \in Nat, NEW w \in Nat \ {0}, w <= n
  PROVE  /\ ObservedRows(n, m, w) \in Seq(Parts \X Nat)
         /\ Len(ObservedRows(n, m, w)) = w - 1 + m
         /\ \A i \in 1 .. w - 1 + m :
              ObservedRows(n, m, w)[i] = History(n, m)[n - w + 1 + i]
<1> DEFINE T == Rows("train", n)
           O == Rows("observation", m)
           L == LastRows(T, w - 1)
<1>1. /\ T \in Seq(Parts \X Nat) /\ O \in Seq(Parts \X Nat) /\ Len(T) = n /\ Len(O) = m
      /\ \A i \in 1 .. n : T[i] = <<"train", i>>
      /\ \A i \in 1 .. m : O[i] = <<"observation", i>>
  BY RowsFacts DEF Parts
<1>2. L = SubSeq(T, n - w + 2, n)
  <2>1. w - 1 < Len(T) /\ Len(T) - (w - 1) + 1 = n - w + 2
    BY <1>1
  <2> HIDE DEF T
  <2> QED  BY <2>1, <1>1 DEF LastRows
<1>3. ObservedRows(n, m, w) = L \o O
  BY DEF ObservedRows
<1> HIDE DEF T, O, L
<1>4. /\ L \in Seq(Parts \X Nat) /\ Len(L) = w - 1
      /\ \A i \in 1 .. w - 1 : L[i] = T[n - w + 1 + i]
  <2> DEFINE a == n - w + 2
  <2>1. a \in Nat \ {0} /\ a <= n + 1 /\ n - a + 1 = w - 1 /\ n <= Len(T)
    BY <1>1
  <2>2. \A i \in 1 .. w - 1 : a + i - 1 = n - w + 1 + i
    OBVIOUS
  <2>3. L = SubSeq(T, a, n)
    BY <1>2
  <2> HIDE DEF a
  <2>4. /\ L \in Seq(Parts \X Nat) /\ Len(L) = n - a + 1
        /\ \A i \in 1 .. n - a + 1 : L[i] = T[a + i - 1]
    BY <1>1, <2>1, <2>3, StretchFacts
  <2> QED  BY <2>1, <2>2, <2>4
<1>5. /\ L \o O \in Seq(Parts \X Nat) /\ Len(L \o O) = Len(L) + Len(O)
      /\ \A i \in 1 .. Len(L) + Len(O) : (L \o O)[i] = IF i <= Len(L) THEN L[i] ELSE O[i - Len(L)]
  BY <1>1, <1>4, ConcatProperties
<1>6. ASSUME NEW i \in 1 .. w - 1 + m
      PROVE  (L \o O)[i] = History(n, m)[n - w + 1 + i]
  <2>0. (L \o O)[i] = IF i <= w - 1 THEN L[i] ELSE O[i - (w - 1)]
    BY <1>1, <1>4, <1>5
  <2>1. CASE i <= w - 1
    <3>1. i \in 1 .. w - 1 /\ n - w + 1 + i \in 1 .. n
      BY <2>1
    <3>2. (L \o O)[i] = T[n - w + 1 + i]
      BY <2>0, <2>1, <3>1, <1>4
    <3> QED  BY <3>1, <3>2, <1>1, HistoryFacts
  <2>2. CASE i > w - 1
    <3>1. PICK j \in 1 .. m : j = i - (w - 1)
      BY <2>2
    <3>2. n - w + 1 + i = n + j
      BY <3>1
    <3>3. (L \o O)[i] = <<"observation", j>>
      BY <2>0, <2>2, <3>1, <1>1
    <3>4. History(n, m)[n + j] = <<"observation", j>>
      BY HistoryFacts
    <3>5. History(n, m)[n - w + 1 + i] = History(n, m)[n + j]
      BY <3>2, Zenon
    <3> QED  BY <3>3, <3>4, <3>5
  <2>3. i <= w - 1 \/ i > w - 1
    OBVIOUS
  <2> QED  BY <2>1, <2>2, <2>3, Zenon
<1>7. Len(L \o O) = w - 1 + m
  BY <1>1, <1>4, <1>5
<1> QED  BY <1>3, <1>5, <1>6, <1>7

(* For every number of rows and every window: with two training windows, the   *)
(* least that _train_sklearn accepts, each window belongs to the row whose     *)
(* target it is paired with, and each observation row has one.                 *)
THEOREM TwoWindowsAlign ==
  ASSUME NEW n \in Nat, NEW m \in Nat, NEW w \in Nat \ {0}, Len(TrainWindows(n, w)) >= 2
  PROVE  Aligned(n, m, w)
<1> DEFINE T == Rows("train", n)
           O == ObservedRows(n, m, w)
           H == History(n, m)
<1>1. T \in Seq(Parts \X Nat) /\ Len(T) = n /\ \A i \in 1 .. n : T[i] = <<"train", i>>
  BY RowsFacts DEF Parts
<1>2. /\ w <= n
      /\ TrainWindows(n, w) = [k \in 1 .. n - (w - 1) |-> SubSeq(T, k, k + (w - 1))]
  <2>1. TrainWindows(n, w) =
          [k \in 1 .. (IF w <= n THEN n - (w - 1) ELSE 0) |-> SubSeq(T, k, k + (w - 1))]
    BY <1>1 DEF TrainWindows, Windows
  <2>2. w <= n
    <3>1. SUFFICES ASSUME ~(w <= n) PROVE FALSE
      OBVIOUS
    <3>2. TrainWindows(n, w) = << >>
      BY <2>1, <3>1
    <3> QED  BY <3>2
  <2> QED  BY <2>1, <2>2
<1>3. /\ O \in Seq(Parts \X Nat) /\ Len(O) = w - 1 + m
      /\ \A i \in 1 .. w - 1 + m : O[i] = H[n - w + 1 + i]
  BY <1>2, ObservedIsHistory
<1>4. H \in Seq(Parts \X Nat) /\ Len(H) = n + m
  BY HistoryFacts
<1>5. ObservationWindows(n, m, w) = [k \in 1 .. m |-> SubSeq(O, k, k + (w - 1))]
  <2>1. (IF w <= Len(O) THEN Len(O) - (w - 1) ELSE 0) = m
    BY <1>3
  <2> QED  BY <2>1 DEF ObservationWindows, Windows
<1> HIDE DEF T, O, H
<1>6. ASSUME NEW k \in 1 .. n - (w - 1)
      PROVE  LET rows == SubSeq(T, k, k + (w - 1)) IN
             rows[w] = TrainTarget(k, w) /\ \A i \in 1 .. w : rows[i][1] = "train"
  <2>1. k \in Nat \ {0} /\ k + (w - 1) \in Nat /\ k + (w - 1) <= Len(T) /\ k <= k + (w - 1) + 1
    BY <1>1, <1>2
  <2>2. \A i \in 1 .. k + (w - 1) - k + 1 : SubSeq(T, k, k + (w - 1))[i] = T[k + i - 1]
    BY <2>1, <1>1, StretchFacts
  <2>3. \A i \in 1 .. w : SubSeq(T, k, k + (w - 1))[i] = <<"train", k + i - 1>>
    <3>1. \A i \in 1 .. w : i \in 1 .. k + (w - 1) - k + 1 /\ k + i - 1 \in 1 .. n
      BY <1>2
    <3> QED  BY <3>1, <2>2, <1>1
  <2>4. SubSeq(T, k, k + (w - 1))[w] = <<"train", k + (w - 1)>>
    <3>1. w \in 1 .. w /\ k + w - 1 = k + (w - 1)
      OBVIOUS
    <3> QED  BY <2>3, <3>1
  <2>5. \A i \in 1 .. w : SubSeq(T, k, k + (w - 1))[i][1] = "train"
    BY <2>3
  <2> QED  BY <2>4, <2>5 DEF TrainTarget
<1>7. ASSUME NEW k \in 1 .. m
      PROVE  SubSeq(O, k, k + (w - 1)) = SubSeq(H, n + k - (w - 1), n + k)
  <2> DEFINE A == SubSeq(O, k, k + (w - 1))
             B == SubSeq(H, n + k - (w - 1), n + k)
  <2> DEFINE e == k + (w - 1)
  <2>1. k \in Nat \ {0} /\ e \in Nat /\ e <= Len(O) /\ k <= e + 1 /\ e - k + 1 = w
    BY <1>3
  <2>5. /\ A \in Seq(Parts \X Nat) /\ Len(A) = w
        /\ \A i \in 1 .. w : A[i] = O[k + i - 1]
    <3>1. A = SubSeq(O, k, e) /\ O \in Seq(Parts \X Nat)
      BY <1>3
    <3> HIDE DEF e, A
    <3>2. /\ A \in Seq(Parts \X Nat) /\ Len(A) = e - k + 1
          /\ \A i \in 1 .. e - k + 1 : A[i] = O[k + i - 1]
      BY <2>1, <3>1, StretchFacts
    <3> QED  BY <2>1, <3>2
  <2> DEFINE a == n + k - (w - 1)
             b == n + k
  <2>3. /\ a \in Nat \ {0} /\ b \in Nat /\ b <= n + m /\ a <= b + 1 /\ b - a + 1 = w
    BY <1>2
  <2>6. /\ B \in Seq(Parts \X Nat) /\ Len(B) = w
        /\ \A i \in 1 .. w : B[i] = H[n + k - (w - 1) + i - 1]
    <3>1. B = SubSeq(H, a, b)
      OBVIOUS
    <3>2. \A i \in 1 .. w : a + i - 1 = n + k - (w - 1) + i - 1
      OBVIOUS
    <3> HIDE DEF a, b, B
    <3>3. /\ B \in Seq(Parts \X Nat) /\ Len(B) = b - a + 1
          /\ \A i \in 1 .. b - a + 1 : B[i] = H[a + i - 1]
      BY <2>3, <3>1, <1>4, StretchFacts
    <3> QED  BY <2>3, <3>2, <3>3
  <2>4. \A i \in 1 .. w : O[k + i - 1] = H[n + k - (w - 1) + i - 1]
    <3>1. \A i \in 1 .. w : /\ k + i - 1 \in 1 .. w - 1 + m
                            /\ n - w + 1 + (k + i - 1) = n + k - (w - 1) + i - 1
      OBVIOUS
    <3> QED  BY <3>1, <1>3
  <2> HIDE DEF A, B
  <2>7. A = B
    BY <2>5, <2>6, <2>4, SeqEqual
  <2> QED  BY <2>7 DEF A, B
<1>8. DOMAIN TrainWindows(n, w) = 1 .. n - (w - 1) /\ Len(ObservationWindows(n, m, w)) = m
  BY <1>2, <1>5
<1>9. \A k \in DOMAIN TrainWindows(n, w) : LET rows == TrainWindows(n, w)[k] IN
        rows[w] = TrainTarget(k, w) /\ \A i \in 1 .. w : rows[i][1] = "train"
  <2>1. SUFFICES ASSUME NEW k \in 1 .. n - (w - 1)
                 PROVE  LET rows == TrainWindows(n, w)[k] IN
                        rows[w] = TrainTarget(k, w) /\ \A i \in 1 .. w : rows[i][1] = "train"
    BY <1>8
  <2>2. TrainWindows(n, w)[k] = SubSeq(T, k, k + (w - 1))
    BY <1>2
  <2> QED  BY <2>2, <1>6
<1>10. \A k \in 1 .. m :
         ObservationWindows(n, m, w)[k] = SubSeq(History(n, m), n + k - (w - 1), n + k)
  BY <1>5, <1>7 DEF H
<1> QED  BY <1>8, <1>9, <1>10 DEF Aligned
-----------------------------------------------------------------------------
(* A training job that completed had rows enough for its window.               *)
CompletedHadRows ==
  \A i \in Admitted :
    trained[i] = "COMPLETED" /\ admitted[i].job_type = "MODEL_TRAIN_AND_OBSERVE" =>
      Enough(admitted[i].data) /\ window(admitted[i].data) \in Nat \ {0}

AdmissionInv == AdmissionTypeOK /\ CompletedHadRows

LEMMA PolicyGivesClass ==
  ASSUME NEW e \in Envelopes
  PROVE  \A r \in Resolutions(e) : r.class \in 0 .. 9 /\ r.authority \in {"ROOT", "WORLD_POLICY"}
<1>1. PolicyClass(e) \in 0 .. 9
  <2>1. CASE e.job_type \in DOMAIN JOB_TYPE_PRIORITY
    BY <2>1 DEF PolicyClass, JOB_TYPE_PRIORITY
  <2>2. CASE e.job_type \notin DOMAIN JOB_TYPE_PRIORITY
    <3>1. e.source \in DOMAIN SOURCE_FALLBACK_PRIORITY
      BY AdmissionAssumption
    <3> QED  BY <2>2, <3>1 DEF PolicyClass, SOURCE_FALLBACK_PRIORITY
  <2> QED  BY <2>1, <2>2
<1> QED  BY <1>1, AdmissionAssumption DEF Resolutions

LEMMA StatusFacts ==
  ASSUME NEW data, NEW stack \in BOOLEAN, NEW fits \in BOOLEAN, window(data) \in Int
  PROVE  /\ TrainingStatus(data, stack, fits) \in TrainingResults
         /\ TrainingStatus(data, stack, fits) = "COMPLETED" =>
              Enough(data) /\ window(data) \in Nat \ {0}
<1>1. TrainingStatus(data, stack, fits) \in TrainingResults
  BY DEF TrainingStatus, TrainingResults
<1>2. TrainingStatus(data, stack, fits) = "COMPLETED" =>
        Enough(data) /\ (data.model_kind = "TIME_SERIES_MLP" => window(data) >= 2)
  BY DEF TrainingStatus
<1>3. data.model_kind # "TIME_SERIES_MLP" => window(data) = 1
  BY DEF window
<1> QED  BY <1>1, <1>2, <1>3

LEMMA EnqueueKeeps ==
  ASSUME AdmissionInv, NEW e \in Submitted, NEW class \in 0 .. 9,
         NEW authority \in {"ROOT", "WORLD_POLICY", "NONE"}, NEW sent \in BOOLEAN,
         EnqueueJob(e, class, authority, sent)
  PROVE  AdmissionInv'
<1> DEFINE row == NewRow(e, class, authority)
           where == IF sent THEN "inbox" ELSE "queued"
<1>1. row \in JobRow
  BY DEF AdmissionInv, AdmissionTypeOK, NewRow, JobRow
<1>2. where \in Places /\ NotRun \in TrainingResults
  BY DEF Places, TrainingResults
<1>3. /\ admitted' = Append(admitted, row) /\ place' = Append(place, where)
      /\ trained' = Append(trained, NotRun) /\ clock' = clock
  BY DEF EnqueueJob
<1> HIDE DEF row, where
<1>4. AdmissionTypeOK'
  BY <1>1, <1>2, <1>3 DEF AdmissionInv, AdmissionTypeOK
<1>5. CompletedHadRows'
  <2>1. SUFFICES ASSUME NEW i \in Admitted', trained'[i] = "COMPLETED",
                        admitted'[i].job_type = "MODEL_TRAIN_AND_OBSERVE"
                 PROVE  Enough(admitted'[i].data) /\ window(admitted'[i].data) \in Nat \ {0}
    BY DEF CompletedHadRows
  <2>2. i \in 1 .. Len(admitted) + 1
    BY <1>3 DEF AdmissionInv, AdmissionTypeOK, Admitted
  <2>3. i # Len(admitted) + 1
    BY <2>1, <1>3 DEF AdmissionInv, AdmissionTypeOK, NotRun
  <2>4. i \in Admitted /\ admitted'[i] = admitted[i] /\ trained'[i] = trained[i]
    BY <2>2, <2>3, <1>3 DEF AdmissionInv, AdmissionTypeOK, Admitted
  <2> QED  BY <2>1, <2>4 DEF AdmissionInv, CompletedHadRows
<1> QED  BY <1>4, <1>5 DEF AdmissionInv

(* Moving one bundle keeps the bundles what they are.                          *)
LEMMA MoveFacts ==
  ASSUME AdmissionInv, NEW i, NEW there \in Places
  PROVE  /\ [place EXCEPT ![i] = there] \in Seq(Places)
         /\ Len([place EXCEPT ![i] = there]) = Len(place)
<1>1. place \in Seq(Places)
  BY DEF AdmissionInv, AdmissionTypeOK
<1>2. CASE i \in 1 .. Len(place)
  BY <1>1, <1>2, ExceptSeq
<1>3. CASE i \notin 1 .. Len(place)
  <2>1. [place EXCEPT ![i] = there] = place
    BY <1>1, <1>3
  <2> QED  BY <2>1, <1>1
<1> QED  BY <1>2, <1>3

LEMMA ExecuteKeeps ==
  ASSUME AdmissionInv, NEW i \in Admitted, ExecuteJob(i)
  PROVE  AdmissionInv'
<1>1. PICK stack \in Stacks, fits \in BOOLEAN :
        trained' = [trained EXCEPT ![i] =
          IF admitted[i].job_type = "HEALTHCHECK" THEN "COMPLETED"
          ELSE TrainingStatus(admitted[i].data, stack, fits)]
  BY DEF ExecuteJob
<1>2. admitted' = admitted /\ clock' = clock /\ place' = [place EXCEPT ![i] = "executed"]
  BY DEF ExecuteJob
<1>3. admitted[i] \in JobRow /\ i \in 1 .. Len(admitted)
  BY ElementOfSeq DEF AdmissionInv, AdmissionTypeOK, Admitted
<1>4. window(admitted[i].data) \in Int /\ stack \in BOOLEAN
  BY <1>3, AdmissionAssumption DEF JobRow, Submitted
<1> DEFINE answer == TrainingStatus(admitted[i].data, stack, fits)
<1>5. /\ answer \in TrainingResults
      /\ answer = "COMPLETED" => Enough(admitted[i].data) /\ window(admitted[i].data) \in Nat \ {0}
  BY <1>4, StatusFacts
<1> HIDE DEF answer
<1>6. trained' = [trained EXCEPT ![i] =
        IF admitted[i].job_type = "HEALTHCHECK" THEN "COMPLETED" ELSE answer]
  BY <1>1 DEF answer
<1>7. AdmissionTypeOK'
  <2>1. place' \in Seq(Places) /\ Len(place') = Len(place)
    BY <1>2, MoveFacts DEF Places
  <2>2. trained \in Seq(TrainingResults) /\ i \in 1 .. Len(trained)
    BY <1>3 DEF AdmissionInv, AdmissionTypeOK
  <2>3. trained' \in Seq(TrainingResults) /\ Len(trained') = Len(trained)
    <3>1. (IF admitted[i].job_type = "HEALTHCHECK" THEN "COMPLETED" ELSE answer) \in TrainingResults
      BY <1>5 DEF TrainingResults
    <3> QED  BY <3>1, <2>2, <1>6, ExceptSeq
  <2> QED  BY <2>1, <2>3, <1>2 DEF AdmissionInv, AdmissionTypeOK
<1>8. CompletedHadRows'
  <2>1. SUFFICES ASSUME NEW j \in Admitted, trained'[j] = "COMPLETED",
                        admitted[j].job_type = "MODEL_TRAIN_AND_OBSERVE"
                 PROVE  Enough(admitted[j].data) /\ window(admitted[j].data) \in Nat \ {0}
    BY <1>2 DEF CompletedHadRows, Admitted
  <2>2. j \in DOMAIN trained
    BY DEF AdmissionInv, AdmissionTypeOK, Admitted
  <2>3. CASE j = i
    BY <2>1, <2>2, <2>3, <1>5, <1>6
  <2>4. CASE j # i
    BY <2>1, <2>2, <2>4, <1>6 DEF AdmissionInv, CompletedHadRows
  <2> QED  BY <2>3, <2>4
<1> QED  BY <1>7, <1>8 DEF AdmissionInv

LEMMA OthersKeep ==
  ASSUME AdmissionInv, admitted' = admitted, trained' = trained,
         clock' \in Nat, place' \in Seq(Places), Len(place') = Len(place)
  PROVE  AdmissionInv'
BY DEF AdmissionInv, AdmissionTypeOK, CompletedHadRows, Admitted

LEMMA StepKeeps == AdmissionInv /\ [AdmissionNext]_admissionVars => AdmissionInv'
<1> SUFFICES ASSUME AdmissionInv, [AdmissionNext]_admissionVars PROVE AdmissionInv'
  OBVIOUS
<1>0. place \in Seq(Places) /\ clock \in Nat
  BY DEF AdmissionInv, AdmissionTypeOK
<1>1. ASSUME NEW e \in Envelopes, Submit(e) PROVE AdmissionInv'
  <2>1. PICK r \in Resolutions(e), sent \in BOOLEAN : EnqueueJob(e, r.class, r.authority, sent)
    BY <1>1 DEF Submit
  <2>2. r.class \in 0 .. 9 /\ r.authority \in {"ROOT", "WORLD_POLICY", "NONE"} /\ e \in Submitted
    BY PolicyGivesClass DEF Submitted
  <2> QED  BY <2>1, <2>2, EnqueueKeeps
<1>2. ASSUME NEW e \in FactoryJobs, SubmitFactoryJob(e) PROVE AdmissionInv'
  <2>1. PICK class \in {4, 6}, sent \in BOOLEAN : EnqueueJob(e, class, "NONE", sent)
    BY <1>2 DEF SubmitFactoryJob
  <2>2. class \in 0 .. 9 /\ e \in Submitted
    BY DEF Submitted
  <2> QED  BY <2>1, <2>2, EnqueueKeeps
<1>3. CASE BeginDispatching
  BY <1>3, <1>0, OthersKeep DEF BeginDispatching
<1>4. CASE DispatchNext
  <2>1. place' = place \/ place' = [place EXCEPT ![Head(batch)] = "inbox"]
    BY <1>4 DEF DispatchNext
  <2>2. "inbox" \in Places /\ admitted' = admitted /\ trained' = trained /\ clock' = clock
    BY <1>4 DEF DispatchNext, Places
  <2>3. place' \in Seq(Places) /\ Len(place') = Len(place)
    BY <2>1, <2>2, <1>0, MoveFacts
  <2> QED  BY <2>2, <2>3, <1>0, OthersKeep
<1>5. CASE Candidates
  <2>1. /\ place' = [i \in Admitted |-> IF i \in Refused THEN "quarantined" ELSE place[i]]
        /\ admitted' = admitted /\ trained' = trained /\ clock' = clock
    BY <1>5 DEF Candidates
  <2>2. Admitted = 1 .. Len(place) /\ \A i \in Admitted : place[i] \in Places
    BY ElementOfSeq DEF AdmissionInv, AdmissionTypeOK, Admitted
  <2>3. place' \in Seq(Places) /\ Len(place') = Len(place)
    BY <2>1, <2>2, <1>0 DEF Places
  <2> QED  BY <2>1, <2>3, <1>0, OthersKeep
<1>6. CASE ClaimNext
  <2>1. place' = [place EXCEPT ![Head(claim)] = "running"] /\ "running" \in Places
    BY <1>6 DEF ClaimNext, Places
  <2>2. place' \in Seq(Places) /\ Len(place') = Len(place)
    BY <2>1, MoveFacts
  <2> QED  BY <1>6, <2>2, <1>0, OthersKeep DEF ClaimNext
<1>7. ASSUME NEW i \in Admitted, ExecuteJob(i) PROVE AdmissionInv'
  BY <1>7, ExecuteKeeps
<1>8. CASE Wait
  <2>1. \A d \in Jumps : clock + d \in Nat
    BY <1>0, AdmissionAssumption
  <2> QED  BY <1>8, <2>1, <1>0, OthersKeep DEF Wait
<1>9. CASE UNCHANGED admissionVars
  BY <1>9, <1>0, OthersKeep DEF admissionVars
<1> QED  BY <1>1, <1>2, <1>3, <1>4, <1>5, <1>6, <1>7, <1>8, <1>9 DEF AdmissionNext

LEMMA InvImpliesAligned == AdmissionInv => WindowsAligned
<1> SUFFICES ASSUME AdmissionInv, NEW i \in Admitted, trained[i] = "COMPLETED",
                    admitted[i].job_type = "MODEL_TRAIN_AND_OBSERVE"
             PROVE  Aligned(admitted[i].data.train, admitted[i].data.observation,
                            window(admitted[i].data))
  BY DEF WindowsAligned
<1>1. Enough(admitted[i].data) /\ window(admitted[i].data) \in Nat \ {0}
  BY DEF AdmissionInv, CompletedHadRows
<1>2. admitted[i].data.train \in Nat /\ admitted[i].data.observation \in Nat
  <2>1. admitted[i] \in JobRow
    BY ElementOfSeq DEF AdmissionInv, AdmissionTypeOK, Admitted
  <2> QED  BY <2>1, AdmissionAssumption DEF JobRow, Submitted
<1>3. Len(TrainWindows(admitted[i].data.train, window(admitted[i].data))) >= 2
  BY <1>1 DEF Enough
<1> QED  BY <1>1, <1>2, <1>3, TwoWindowsAlign

(* No training job completes, whatever its rows and its window and whatever    *)
(* the clocks and the memory of the node do, with windows of other rows.       *)
THEOREM CompletedAligned == AdmissionSpec => [](AdmissionTypeOK /\ WindowsAligned)
<1>1. AdmissionInit => AdmissionInv
  BY DEF AdmissionInit, AdmissionInv, AdmissionTypeOK, CompletedHadRows, Admitted
<1>2. AdmissionInv => AdmissionTypeOK /\ WindowsAligned
  BY InvImpliesAligned DEF AdmissionInv
<1> QED  BY <1>1, <1>2, StepKeeps, PTL DEF AdmissionSpec
-----------------------------------------------------------------------------
(* InOrder of the rows given.                                                  *)
Ordered(rows, s) ==
  \A m, n \in DOMAIN s : m < n =>
    LET a == rows[s[m]]   b == rows[s[n]] IN
    /\ a.class <= b.class + 1
    /\ a.class = b.class + 1 => b.created - a.created > 99 * 300
    /\ a.class = b.class /\ a.deadline = b.deadline => a.created <= b.created

(* The bonus is between 0 and 120, and the older a job the higher; a hundred   *)
(* points of difference take more than 99 steps.                               *)
LEMMA BonusFacts ==
  ASSUME NEW x \in Int, NEW y \in Int
  PROVE  /\ AgeBonus(x) \in 0 .. 120
         /\ AgeBonus(x) > AgeBonus(y) => x > y
         /\ AgeBonus(x) >= AgeBonus(y) + 100 => x - y > 99 * 300
BY DEF AgeBonus

(* What the sorting of two rows leaves of their classes, ages and deadlines.   *)
LEMMA PairFacts ==
  ASSUME AdmissionTypeOK, NEW i \in Admitted, NEW k \in Admitted, NEW now \in Int,
         ~Precedes(k, i, now)
  PROVE  LET a == admitted[i]   b == admitted[k] IN
         /\ a.class <= b.class + 1
         /\ a.class = b.class + 1 => b.created - a.created > 99 * 300
         /\ a.class = b.class /\ a.deadline = b.deadline => a.created <= b.created
<1> DEFINE a == admitted[i]
           b == admitted[k]
           f == AgeBonus(now - a.created)
           g == AgeBonus(now - b.created)
<1>1. a \in JobRow /\ b \in JobRow
  BY ElementOfSeq DEF AdmissionTypeOK, Admitted
<1>2. /\ a.class \in 0 .. 9 /\ b.class \in 0 .. 9 /\ a.created \in Nat /\ b.created \in Nat
      /\ now - a.created \in Int /\ now - b.created \in Int
  BY <1>1 DEF JobRow
<1>3. /\ EffectivePriority(i, now) = 1000 - 100 * a.class + f
      /\ EffectivePriority(k, now) = 1000 - 100 * b.class + g
  BY DEF EffectivePriority, PRIORITY
<1>4. /\ f \in 0 .. 120 /\ g \in 0 .. 120
      /\ f > g => now - a.created > now - b.created
      /\ f >= g + 100 => (now - a.created) - (now - b.created) > 99 * 300
  BY <1>2, BonusFacts
<1>5. /\ ~(1000 - 100 * b.class + g > 1000 - 100 * a.class + f)
      /\ ~(/\ 1000 - 100 * b.class + g = 1000 - 100 * a.class + f
           /\ b.deadline = a.deadline /\ b.created < a.created)
  BY <1>3 DEF Precedes
<1> HIDE DEF a, b, f, g
<1>6. a.class <= b.class + 1 /\ (a.class = b.class + 1 => f >= g + 100)
  <2>1. \A p, q \in 0 .. 9, x, y \in 0 .. 120 :
          ~(1000 - 100 * q + y > 1000 - 100 * p + x) =>
            p <= q + 1 /\ (p = q + 1 => x >= y + 100)
    OBVIOUS
  <2>2. f \in 0 .. 120 /\ g \in 0 .. 120 /\ ~(1000 - 100 * b.class + g > 1000 - 100 * a.class + f)
    BY <1>4, <1>5
  <2> QED  BY <2>1, <2>2, <1>2
<1>7. a.class = b.class + 1 => b.created - a.created > 99 * 300
  BY <1>2, <1>4, <1>6
<1>8. a.class = b.class /\ a.deadline = b.deadline => a.created <= b.created
  BY <1>2, <1>4, <1>5
<1> QED  BY <1>6, <1>7, <1>8 DEF a, b

LEMMA SortedOrdered ==
  ASSUME AdmissionTypeOK, NEW rows, rows \subseteq Admitted, NEW now \in Int,
         NEW s \in Sorted(rows, now)
  PROVE  s \in Seq(Admitted) /\ Ordered(admitted, s)
<1>1. Cardinality(rows) \in Nat
  <2>1. Admitted = 1 .. Len(admitted) /\ Len(admitted) \in Nat
    BY DEF AdmissionTypeOK, Admitted
  <2>2. IsFiniteSet(Admitted)
    BY <2>1, FS_Interval
  <2> QED  BY <2>2, FS_Subset, FS_CardinalityType
<1>2. s \in [1 .. Cardinality(rows) -> rows]
  BY DEF Sorted, SetToSeqs
<1>3. s \in Seq(Admitted)
  BY <1>1, <1>2
<1>4. ASSUME NEW m \in DOMAIN s, NEW n \in DOMAIN s, m < n
      PROVE  ~Precedes(s[n], s[m], now) /\ s[m] \in Admitted /\ s[n] \in Admitted
  BY <1>2, <1>4 DEF Sorted
<1> QED  BY <1>3, <1>4, PairFacts DEF Ordered

(* A part of an ordered list is ordered, and it stays so when rows are added.  *)
LEMMA OrderedStays ==
  ASSUME NEW rows \in Seq(JobRow), NEW s \in Seq(1 .. Len(rows)), Ordered(rows, s)
  PROVE  /\ \A row \in JobRow :
              s \in Seq(1 .. Len(rows) + 1) /\ Ordered(Append(rows, row), s)
         /\ \A k \in 1 .. Len(s) :
              SubSeq(s, 1, k) \in Seq(1 .. Len(rows)) /\ Ordered(rows, SubSeq(s, 1, k))
         /\ s # << >> => Tail(s) \in Seq(1 .. Len(rows)) /\ Ordered(rows, Tail(s))
<1>1. ASSUME NEW row \in JobRow
      PROVE  s \in Seq(1 .. Len(rows) + 1) /\ Ordered(Append(rows, row), s)
  <2>1. s \in Seq(1 .. Len(rows) + 1)
    BY SeqMonotonic
  <2>2. \A m \in DOMAIN s : Append(rows, row)[s[m]] = rows[s[m]]
    BY ElementOfSeq
  <2> QED  BY <2>1, <2>2 DEF Ordered
<1>2. ASSUME NEW k \in 1 .. Len(s)
      PROVE  SubSeq(s, 1, k) \in Seq(1 .. Len(rows)) /\ Ordered(rows, SubSeq(s, 1, k))
  <2>1. /\ SubSeq(s, 1, k) \in Seq(1 .. Len(rows)) /\ Len(SubSeq(s, 1, k)) = k
        /\ \A i \in 1 .. k : SubSeq(s, 1, k)[i] = s[i]
    OBVIOUS
  <2>2. DOMAIN SubSeq(s, 1, k) = 1 .. k /\ 1 .. k \subseteq DOMAIN s
    BY <2>1
  <2> DEFINE t == SubSeq(s, 1, k)
  <2>3. DOMAIN t = 1 .. k /\ \A i \in 1 .. k : t[i] = s[i] /\ i \in DOMAIN s
    BY <2>1, <2>2
  <2> HIDE DEF t
  <2>4. Ordered(rows, t)
    BY <2>3 DEF Ordered
  <2> QED  BY <2>1, <2>4 DEF t
<1>3. ASSUME s # << >>
      PROVE  Tail(s) \in Seq(1 .. Len(rows)) /\ Ordered(rows, Tail(s))
  <2>1. /\ Tail(s) \in Seq(1 .. Len(rows)) /\ DOMAIN Tail(s) = 1 .. Len(s) - 1
        /\ \A i \in 1 .. Len(s) - 1 : Tail(s)[i] = s[i + 1] /\ i + 1 \in DOMAIN s
    BY <1>3
  <2> DEFINE t == Tail(s)
  <2>2. /\ t \in Seq(1 .. Len(rows)) /\ DOMAIN t = 1 .. Len(s) - 1
        /\ \A i \in 1 .. Len(s) - 1 : t[i] = s[i + 1] /\ i + 1 \in DOMAIN s
    BY <2>1
  <2> HIDE DEF t
  <2>3. \A i, j \in DOMAIN t : i < j => i + 1 < j + 1
    BY <2>2
  <2>4. ASSUME NEW i \in DOMAIN t, NEW j \in DOMAIN t, i < j
        PROVE  LET a == rows[t[i]]   b == rows[t[j]] IN
               /\ a.class <= b.class + 1
               /\ a.class = b.class + 1 => b.created - a.created > 99 * 300
               /\ a.class = b.class /\ a.deadline = b.deadline => a.created <= b.created
    <3> DEFINE k == i + 1
               l == j + 1
    <3>1. k \in DOMAIN s /\ l \in DOMAIN s /\ k < l /\ t[i] = s[k] /\ t[j] = s[l]
      BY <2>2, <2>3, <2>4
    <3> HIDE DEF k, l
    <3> QED  BY <3>1 DEF Ordered
  <2> QED  BY <2>2, <2>4 DEF t, Ordered
<1> QED  BY <1>1, <1>2, <1>3

OrderInv ==
  /\ batch \in Seq(Admitted) /\ Ordered(admitted, batch)
  /\ claim \in Seq(Admitted) /\ Ordered(admitted, claim)

LEMMA OrderKeeps == AdmissionTypeOK /\ OrderInv /\ [AdmissionNext]_admissionVars => OrderInv'
<1> SUFFICES ASSUME AdmissionTypeOK, OrderInv, [AdmissionNext]_admissionVars PROVE OrderInv'
  OBVIOUS
<1>0. /\ admitted \in Seq(JobRow) /\ Admitted = 1 .. Len(admitted) /\ clock \in Nat
      /\ Len(admitted) \in Nat
  BY DEF AdmissionTypeOK, Admitted
<1>1. ASSUME NEW e \in Submitted, NEW class \in 0 .. 9,
             NEW authority \in {"ROOT", "WORLD_POLICY", "NONE"}, NEW sent \in BOOLEAN,
             EnqueueJob(e, class, authority, sent)
      PROVE  OrderInv'
  <2>1. NewRow(e, class, authority) \in JobRow
    BY <1>0 DEF NewRow, JobRow
  <2>2. admitted' = Append(admitted, NewRow(e, class, authority)) /\ batch' = batch /\ claim' = claim
    BY <1>1 DEF EnqueueJob
  <2>3. Admitted' = 1 .. Len(admitted) + 1
    BY <2>1, <2>2, <1>0 DEF Admitted
  <2> HIDE DEF NewRow
  <2> QED  BY <2>1, <2>2, <2>3, <1>0, OrderedStays DEF OrderInv
<1>2. ASSUME NEW e \in Envelopes, Submit(e) PROVE OrderInv'
  <2>1. PICK r \in Resolutions(e), sent \in BOOLEAN : EnqueueJob(e, r.class, r.authority, sent)
    BY <1>2 DEF Submit
  <2>2. r.class \in 0 .. 9 /\ r.authority \in {"ROOT", "WORLD_POLICY", "NONE"} /\ e \in Submitted
    BY PolicyGivesClass DEF Submitted
  <2> QED  BY <2>1, <2>2, <1>1
<1>3. ASSUME NEW e \in FactoryJobs, SubmitFactoryJob(e) PROVE OrderInv'
  <2>1. PICK class \in {4, 6}, sent \in BOOLEAN : EnqueueJob(e, class, "NONE", sent)
    BY <1>3 DEF SubmitFactoryJob
  <2>2. class \in 0 .. 9 /\ e \in Submitted
    BY DEF Submitted
  <2> QED  BY <2>1, <2>2, <1>1
<1>4. CASE BeginDispatching
  <2>1. PICK s \in Sorted({i \in Admitted : place[i] = "queued"}, clock) :
          s # << >> /\ batch' = SubSeq(s, 1, IF Limit < Len(s) THEN Limit ELSE Len(s))
    BY <1>4 DEF BeginDispatching
  <2>2. s \in Seq(1 .. Len(admitted)) /\ Ordered(admitted, s)
    BY <1>0, SortedOrdered
  <2>3. (IF Limit < Len(s) THEN Limit ELSE Len(s)) \in 1 .. Len(s)
    BY <2>1, <2>2, AdmissionAssumption
  <2>4. batch' \in Seq(1 .. Len(admitted)) /\ Ordered(admitted, batch')
    BY <2>1, <2>2, <2>3, <1>0, OrderedStays
  <2> QED  BY <2>4, <1>0, <1>4 DEF BeginDispatching, OrderInv, Admitted
<1>5. CASE DispatchNext
  <2>1. batch # << >> /\ batch' = Tail(batch) /\ admitted' = admitted /\ claim' = claim
    BY <1>5 DEF DispatchNext
  <2>2. batch' \in Seq(1 .. Len(admitted)) /\ Ordered(admitted, batch')
    BY <2>1, <1>0, OrderedStays DEF OrderInv
  <2> QED  BY <2>1, <2>2, <1>0 DEF OrderInv, Admitted
<1>6. CASE Candidates
  <2>1. PICK memory \in MemoryLevels, gpu \in BOOLEAN :
          claim' \in Sorted({i \in InInbox \ Refused : Eligible(i, memory, gpu)}, clock + Skew)
    BY <1>6 DEF Candidates
  <2>2. {i \in InInbox \ Refused : Eligible(i, memory, gpu)} \subseteq Admitted
    BY DEF InInbox
  <2>3. clock + Skew \in Int
    BY <1>0, AdmissionAssumption
  <2>4. claim' \in Seq(1 .. Len(admitted)) /\ Ordered(admitted, claim')
    BY <2>1, <2>2, <2>3, <1>0, SortedOrdered
  <2> QED  BY <2>4, <1>0, <1>6 DEF Candidates, OrderInv, Admitted
<1>7. CASE ClaimNext
  <2>1. claim' = << >> /\ admitted' = admitted /\ batch' = batch
    BY <1>7 DEF ClaimNext
  <2>2. << >> \in Seq(Admitted) /\ Ordered(admitted, << >>)
    BY DEF Ordered
  <2> QED  BY <2>1, <2>2 DEF OrderInv, Admitted
<1>8. ASSUME admitted' = admitted, batch' = batch, claim' = claim PROVE OrderInv'
  BY <1>8 DEF OrderInv, Admitted
<1>9. CASE UNCHANGED admissionVars
  BY <1>8, <1>9 DEF admissionVars
<1>10. ASSUME NEW i \in Admitted, ExecuteJob(i) PROVE OrderInv'
  BY <1>8, <1>10 DEF ExecuteJob
<1>11. CASE Wait
  BY <1>8, <1>11 DEF Wait
<1> QED  BY <1>2, <1>3, <1>4, <1>5, <1>6, <1>7, <1>9, <1>10, <1>11 DEF AdmissionNext

(* Whatever is submitted, sent, claimed and awaited, and however the clocks    *)
(* differ: waiting lifts a job over one class and never over two.              *)
THEOREM InversionBounded == AdmissionSpec => []BoundedInversion
<1>1. AdmissionInit => AdmissionInv /\ OrderInv
  BY DEF AdmissionInit, AdmissionInv, AdmissionTypeOK, CompletedHadRows, Admitted, OrderInv, Ordered
<1>2. AdmissionInv /\ OrderInv /\ [AdmissionNext]_admissionVars => (AdmissionInv /\ OrderInv)'
  BY StepKeeps, OrderKeeps DEF AdmissionInv
<1>3. OrderInv => BoundedInversion
  BY DEF OrderInv, Ordered, BoundedInversion, InOrder
<1> QED  BY <1>1, <1>2, <1>3, PTL DEF AdmissionSpec
=============================================================================

----------------------------- MODULE JobAdmission -----------------------------
(* How work gets to Node-01 and in which order: the gateway takes a            *)
(* JobEnvelope, has an authority decide its priority class, asks the resource  *)
(* router whether the job is admissible, and submits it; the world factory     *)
(* submits jobs of its own without any of them.  dispatch_pending sends what   *)
(* did not get through, and the worker claims one job after another.           *)
(*                                                                             *)
(* ComputeFabric models how the bundle of a job travels and what crashes do to *)
(* it; here a bundle arrives whole or not at all, and the order, the age and   *)
(* the resources of jobs, which that module leaves out, are the subject.       *)
EXTENDS Integers, FiniteSets, SequencesExt, WorkerTraining

CONSTANTS
  Envelopes,      \* what callers of the gateway put forward
  RootClasses,    \* the classes Root asks for
  FactoryJobs,    \* what the model lab submits directly to the backend
  Keyless,        \* idempotency_key=None
  NoDeadline,     \* deadline_unix=None
  Profile,        \* cpu_cores, reserved_cpu_cores, soft_training_ram_mb of Node-01
  CpuCount,       \* os.cpu_count() of the worker
  MemoryLevels,   \* values of MemAvailable on the node, MB
  Stacks,         \* whether scikit-learn may import on the node
  Skew,           \* clock of the node minus clock of the i7, in seconds
  Jumps,          \* seconds that may pass at once
  MaxClock, MaxJobs,      \* bounds
  Limit           \* limit of dispatch_pending

JobTypes == {"HEALTHCHECK", "LIVE_PREDICTION", "OUTCOME_OBSERVATION", "FEATURE_PREDICTION",
             "MODEL_RETRAIN", "MODEL_TRAIN_AND_OBSERVE", "AGENT_ACTIVE_LAB",
             "CHALLENGER_TRAINING", "FEATURE_MICRONET_LEARNING", "DISCOVERY_EXPERIMENT",
             "MAINTENANCE"}

VARIABLES
  admitted,       \* the rows of compute_jobs in the order of their insertion
  place,          \* where the bundle of each row is
  clock,          \* now_unix() on the i7
  batch,          \* the rows dispatch_pending still has to send
  claim,          \* what _candidates returned to claim_next, best first
  trained         \* the result of each job

admissionVars == <<admitted, place, clock, batch, claim, trained>>

Admitted == DOMAIN admitted
NotRun == "NOT_RUN"

AdmissionInit ==
  /\ admitted = <<>> /\ place = <<>> /\ trained = <<>>
  /\ clock = 0 /\ batch = <<>> /\ claim = <<>>

-----------------------------------------------------------------------------
(* Priority.  Class n stands for P<n>_...                                      *)

PRIORITY(class) == 1000 - 100 * class

JOB_TYPE_PRIORITY ==
  [HEALTHCHECK |-> 9, LIVE_PREDICTION |-> 1, OUTCOME_OBSERVATION |-> 2,
   FEATURE_PREDICTION |-> 3, MODEL_RETRAIN |-> 4, MODEL_TRAIN_AND_OBSERVE |-> 6,
   AGENT_ACTIVE_LAB |-> 5, CHALLENGER_TRAINING |-> 6, FEATURE_MICRONET_LEARNING |-> 7,
   DISCOVERY_EXPERIMENT |-> 8, MAINTENANCE |-> 9]

SOURCE_FALLBACK_PRIORITY ==
  [SYSTEM |-> 9, WORLD |-> 6, DIRECTOR |-> 6, AGENT |-> 5, CONTINUUM |-> 8]

(* What JobEnvelope.validate requires of a caller, and what a bundle holds.    *)
ASSUME AdmissionAssumption ==
  /\ RootClasses \subseteq 0 .. 9
  /\ Stacks \subseteq BOOLEAN /\ Skew \in Int /\ Jumps \subseteq Nat \ {0} /\ MaxClock \in Nat
  /\ MaxJobs \in Nat /\ Limit \in Nat \ {0}
  /\ \A e \in Envelopes : e.source \in DOMAIN SOURCE_FALLBACK_PRIORITY
  /\ \A e \in Envelopes \union FactoryJobs :
       e.data.train \in Nat /\ e.data.observation \in Nat /\ window(e.data) \in Int

WorldsWithPolicy == {"WORLD__SPORT", "WORLD__FOREX", "WORLD__CAPITAL", "WORLD__SYSTEM"}

(* WorldPolicyPriorityAuthority: what the caller requested is not looked at.   *)
PolicyClass(e) ==
  IF e.job_type \in DOMAIN JOB_TYPE_PRIORITY THEN JOB_TYPE_PRIORITY[e.job_type]
  ELSE SOURCE_FALLBACK_PRIORITY[e.source]

(* The authority and the class that the two entries of the gateway give.       *)
Resolutions(e) ==
  {[authority |-> "ROOT", class |-> c] : c \in RootClasses}
    \union (IF e.world_id \in WorldsWithPolicy
            THEN {[authority |-> "WORLD_POLICY", class |-> PolicyClass(e)]} ELSE {})

(* Mutant: the bonus of age is not limited.                                    *)
Mut_AgeBonus(seconds) == (IF seconds < 0 THEN 0 ELSE seconds) \div 300

(* One point for each 300 seconds of waiting, 120 at most.                     *)
AgeBonus(seconds) ==
  LET points == (IF seconds < 0 THEN 0 ELSE seconds) \div 300
  IN  IF points < 120 THEN points ELSE 120

EffectivePriority(i, now) == PRIORITY(admitted[i].class) + AgeBonus(now - admitted[i].created)

(* Row i is sorted before row k: a higher effective priority, an earlier       *)
(* deadline or one at all, an earlier creation.  Rows may tie.                 *)
Precedes(i, k, now) ==
  LET a == admitted[i]   b == admitted[k]
      p == EffectivePriority(i, now)   q == EffectivePriority(k, now)
  IN  \/ p > q
      \/ /\ p = q
         /\ \/ a.deadline # NoDeadline /\ (b.deadline = NoDeadline \/ a.deadline < b.deadline)
            \/ a.deadline = b.deadline /\ a.created < b.created

Sorted(rows, now) ==
  {s \in SetToSeqs(rows) : \A m, n \in DOMAIN s : m < n => ~Precedes(s[n], s[m], now)}
-----------------------------------------------------------------------------
(* Node01ResourceRouter                                                        *)

CPU_ONLY_JOB_TYPES == {"HEALTHCHECK", "MODEL_TRAIN_AND_OBSERVE", "MODEL_RETRAIN", "MAINTENANCE",
                       "OUTCOME_OBSERVATION", "FEATURE_PREDICTION", "LIVE_PREDICTION"}

schedulable_cpu_cores ==
  LET left == Profile.cpu_cores - Profile.reserved_cpu_cores IN IF left > 1 THEN left ELSE 1

(* GPU execution is blocked for every other type, whatever the node has.       *)
Routable(e) ==
  /\ e.cpu_cores <= schedulable_cpu_cores
  /\ e.ram_mb <= Profile.soft_training_ram_mb
  /\ e.job_type \in CPU_ONLY_JOB_TYPES \/ e.gpu_mode # "GPU"

-----------------------------------------------------------------------------
(* The backend: enqueue, and one attempt to send the bundle.                   *)

SameKey(e) == {i \in Admitted : e.key # Keyless /\ admitted[i].key = e.key}

NewRow(e, class, authority) ==
  [job_type |-> e.job_type, class |-> class, authority |-> authority, key |-> e.key,
   cpu_cores |-> e.cpu_cores, ram_mb |-> e.ram_mb, gpu_mode |-> e.gpu_mode,
   deadline |-> e.deadline, data |-> e.data, created |-> clock]

EnqueueJob(e, class, authority, sent) ==
  /\ SameKey(e) = {} /\ Len(admitted) < MaxJobs
  /\ admitted' = Append(admitted, NewRow(e, class, authority))
  /\ place' = Append(place, IF sent THEN "inbox" ELSE "queued")
  /\ trained' = Append(trained, NotRun)
  /\ UNCHANGED <<clock, batch, claim>>

(* UnifiedRemoteJobGateway.submit and submit_root_override.  With a key that   *)
(* is taken they change nothing: the receipt names the row of the earlier      *)
(* submission, and the class that this one was given.                          *)
Submit(e) ==
  /\ ~e.resolved /\ Routable(e)
  /\ \E r \in Resolutions(e), sent \in BOOLEAN : EnqueueJob(e, r.class, r.authority, sent)

(* _enqueue_candidate_jobs of the world factory: P4 for a retraining, else P6; *)
(* neither an authority nor the router is asked.  Today the factory raises     *)
(* before its first submission (QueueRaises in NetworkFactory); the backend    *)
(* takes such a job from whoever builds one.                                   *)
SubmitFactoryJob(e) ==
  \E class \in {4, 6}, sent \in BOOLEAN : EnqueueJob(e, class, "NONE", sent)

(* dispatch_pending reads the best rows once, then sends them one by one.      *)
BeginDispatching ==
  /\ batch = <<>>
  /\ \E s \in Sorted({i \in Admitted : place[i] = "queued"}, clock) :
       /\ s # <<>>
       /\ batch' = SubSeq(s, 1, IF Limit < Len(s) THEN Limit ELSE Len(s))
  /\ UNCHANGED <<admitted, place, clock, claim, trained>>

DispatchNext ==
  /\ batch # <<>> /\ batch' = Tail(batch)
  /\ \E sent \in BOOLEAN :
       place' = IF sent THEN [place EXCEPT ![Head(batch)] = "inbox"] ELSE place
  /\ UNCHANGED <<admitted, clock, claim, trained>>
-----------------------------------------------------------------------------
(* The worker                                                                  *)

ALLOWED_JOB_TYPES == {"HEALTHCHECK", "MODEL_TRAIN_AND_OBSERVE"}

Eligible(i, memory, gpu) ==
  /\ admitted[i].cpu_cores <= CpuCount
  /\ admitted[i].ram_mb <= memory
  /\ admitted[i].gpu_mode = "GPU" => gpu

InInbox == {i \in Admitted : place[i] = "inbox"}
Refused == {i \in InInbox : admitted[i].job_type \notin ALLOWED_JOB_TYPES}

(* _candidates: jobs of other types are moved to failed/ in passing, those     *)
(* that do not fit now are left where they are.                                *)
Candidates ==
  /\ claim = <<>> /\ \A i \in Admitted : place[i] # "running"
  /\ InInbox # {}
  /\ \E memory \in MemoryLevels, gpu \in BOOLEAN :
       claim' \in Sorted({i \in InInbox \ Refused : Eligible(i, memory, gpu)}, clock + Skew)
  /\ place' = [i \in Admitted |-> IF i \in Refused THEN "quarantined" ELSE place[i]]
  /\ UNCHANGED <<admitted, clock, batch, trained>>

(* claim_next takes the first of them; jobs that arrive meanwhile have to wait.*)
ClaimNext ==
  /\ claim # <<>> /\ claim' = <<>>
  /\ place' = [place EXCEPT ![Head(claim)] = "running"]
  /\ UNCHANGED <<admitted, clock, batch, trained>>

(* execute, up to the result in results/.                                      *)
ExecuteJob(i) ==
  /\ place[i] = "running" /\ place' = [place EXCEPT ![i] = "executed"]
  /\ \E stack \in Stacks, fits \in BOOLEAN :
       trained' = [trained EXCEPT ![i] =
         IF admitted[i].job_type = "HEALTHCHECK" THEN "COMPLETED"
         ELSE TrainingStatus(admitted[i].data, stack, fits)]
  /\ UNCHANGED <<admitted, clock, batch, claim>>

Wait ==
  /\ \E d \in Jumps : clock + d <= MaxClock /\ clock' = clock + d
  /\ UNCHANGED <<admitted, place, batch, claim, trained>>

AdmissionNext ==
  \/ \E e \in Envelopes : Submit(e)
  \/ \E e \in FactoryJobs : SubmitFactoryJob(e)
  \/ BeginDispatching \/ DispatchNext
  \/ Candidates \/ ClaimNext
  \/ \E i \in Admitted : ExecuteJob(i)
  \/ Wait

AdmissionSpec == AdmissionInit /\ [][AdmissionNext]_admissionVars
-----------------------------------------------------------------------------
Submitted == Envelopes \union FactoryJobs
Places == {"queued", "inbox", "quarantined", "running", "executed"}
TrainingResults == {NotRun, "COMPLETED", "FAILED", "WAITING_DEPENDENCY", "WAITING_IMPLEMENTATION"}

JobRow ==
  [job_type : {e.job_type : e \in Submitted}, class : 0 .. 9,
   authority : {"ROOT", "WORLD_POLICY", "NONE"}, key : {e.key : e \in Submitted},
   cpu_cores : {e.cpu_cores : e \in Submitted}, ram_mb : {e.ram_mb : e \in Submitted},
   gpu_mode : {e.gpu_mode : e \in Submitted}, deadline : {e.deadline : e \in Submitted},
   data : {e.data : e \in Submitted}, created : Nat]

(* The queue, the bundles and the results are of their types and as many.      *)
AdmissionTypeOK ==
  /\ admitted \in Seq(JobRow) /\ clock \in Nat
  /\ place \in Seq(Places) /\ Len(place) = Len(admitted)
  /\ trained \in Seq(TrainingResults) /\ Len(trained) = Len(admitted)

(* Waiting helps a job over one class and never over two.  Of the jobs in one  *)
(* sorted list, an earlier one is at most one class below a later one, and     *)
(* then was created 99 ageing steps before it; of one class and deadline, the  *)
(* older comes first, also where the bonus has reached its limit and where the *)
(* clock of the node is behind (node_worker.py:202-228, fabric.py:382-400).    *)
InOrder(s) ==
  \A m, n \in DOMAIN s : m < n =>
    LET a == admitted[s[m]]   b == admitted[s[n]] IN
    /\ a.class <= b.class + 1
    /\ a.class = b.class + 1 => b.created - a.created > 99 * 300
    /\ a.class = b.class /\ a.deadline = b.deadline => a.created <= b.created

BoundedInversion == InOrder(batch) /\ InOrder(claim)

(* Every training job that completes, of whatever number of rows and window,   *)
(* was fitted and judged on windows that belong to their targets, none of them *)
(* with an observation row among those it was fitted on.                       *)
WindowsAligned ==
  \A i \in Admitted :
    trained[i] = "COMPLETED" /\ admitted[i].job_type = "MODEL_TRAIN_AND_OBSERVE" =>
      Aligned(admitted[i].data.train, admitted[i].data.observation, window(admitted[i].data))
=============================================================================

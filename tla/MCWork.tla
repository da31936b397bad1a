-------------------------------- MODULE MCWork --------------------------------
(* One instance for how work comes about: the manual cycle, which has it done, *)
(* and the admission of jobs.  They share no variable, so a behaviour runs one *)
(* of the two.                                                                 *)
(*                                                                             *)
(* The gateway is given the health check of the controller and a retraining    *)
(* with a deadline; the factory submits a sequence model with enough rows and  *)
(* one with fewer than its window reaches back.                                *)
EXTENDS MCManualCycle, JobAdmission

VARIABLE part

NoData == [model_kind |-> "MLP", train |-> 0, observation |-> 0, window |-> NoWindow,
           outputs |-> FALSE, features |-> FALSE]

HealthCheck ==
  [source |-> "SYSTEM", job_type |-> "HEALTHCHECK", world_id |-> "WORLD__SYSTEM", resolved |-> FALSE,
   key |-> Keyless, cpu_cores |-> 1, ram_mb |-> 128, gpu_mode |-> "NONE", deadline |-> NoDeadline,
   data |-> NoData]

Retrain ==
  [HealthCheck EXCEPT !.source = "WORLD", !.job_type = "MODEL_RETRAIN", !.world_id = "WORLD__SPORT",
                      !.key = "retrain", !.gpu_mode = "AUTO", !.deadline = 1000]

TooLarge == [HealthCheck EXCEPT !.cpu_cores = 4]

FactoryJob(n, k) ==
  [HealthCheck EXCEPT !.source = "WORLD", !.job_type = "MODEL_TRAIN_AND_OBSERVE",
      !.key = k, !.cpu_cores = 2, !.ram_mb = 2048, !.gpu_mode = "AUTO",
      !.data = [model_kind |-> "TIME_SERIES_MLP", train |-> n, observation |-> 2,
                window |-> 3, outputs |-> TRUE, features |-> TRUE]]

(* Only Root can admit a job of a world without a priority policy.            *)
Foreign == [Retrain EXCEPT !.world_id = "WORLD__AGENT"]

MCEnvelopes == {HealthCheck, Foreign, TooLarge}
MCFactoryJobs == {FactoryJob(4, "trial-1"), FactoryJob(1, "trial-2")}
MCProfile == [cpu_cores |-> 4, reserved_cpu_cores |-> 1, soft_training_ram_mb |-> 10240]

PartsInit ==
  /\ Init /\ AdmissionInit
  /\ \/ part = "cycle"
     \/ part = "admission" /\ deps = "shipped"

PartsNext ==
  \/ part = "cycle" /\ Next /\ UNCHANGED <<admissionVars, part>>
  \/ part = "admission" /\ AdmissionNext /\ UNCHANGED <<vars, part>>

PartsSpec == PartsInit /\ [][PartsNext]_<<vars, admissionVars, part>>
=============================================================================

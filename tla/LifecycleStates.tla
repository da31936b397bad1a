-------------------------- MODULE LifecycleStates --------------------------
(* The states of a network generation and what leads from one to another   *)
(* (ssi_v5/lifecycle/generation_registry.py).                              *)
LIFECYCLE_STATES ==
  {"PLANNED", "QUEUED", "TRAINING", "HISTORICALLY_EVALUATED", "SHADOW", "ACTIVE", "DEGRADED",
   "SUSPENDED", "RETIRED", "FAILED", "QUARANTINED"}

ALLOWED_TRANSITIONS ==
  [s \in LIFECYCLE_STATES |->
     CASE s = "PLANNED" -> {"QUEUED", "RETIRED", "QUARANTINED"}
       [] s = "QUEUED" -> {"TRAINING", "FAILED", "QUARANTINED", "RETIRED"}
       [] s = "TRAINING" -> {"HISTORICALLY_EVALUATED", "FAILED", "QUARANTINED"}
       [] s = "HISTORICALLY_EVALUATED" -> {"SHADOW", "FAILED", "QUARANTINED", "RETIRED"}
       [] s = "SHADOW" -> {"ACTIVE", "SUSPENDED", "QUARANTINED", "RETIRED"}
       [] s = "ACTIVE" -> {"DEGRADED", "SUSPENDED", "QUARANTINED", "RETIRED"}
       [] s = "DEGRADED" -> {"ACTIVE", "SUSPENDED", "QUARANTINED", "RETIRED"}
       [] s = "SUSPENDED" -> {"SHADOW", "ACTIVE", "QUARANTINED", "RETIRED"}
       [] s \in {"FAILED", "QUARANTINED"} -> {"RETIRED"}
       [] s = "RETIRED" -> {}]

PROMOTION_AUTHORITIES == {"ROOT", "WORLD_POLICY", "DIRECTOR"}

(* The states a generation reaches only by qualifying for the shadow phase, *)
(* and the way to it.                                                      *)
Qualified == {"SHADOW", "ACTIVE", "DEGRADED", "SUSPENDED"}
Schooling == {"PLANNED", "QUEUED", "TRAINING", "HISTORICALLY_EVALUATED"}
=============================================================================

----------------------- MODULE MCGenerationLifecycle ------------------------
(* An instance of GenerationLifecycle for TLC.  What callers put forward:  *)
(* historical evidence, prospective evidence from who may promote, and     *)
(* prospective evidence from who may not.                                  *)
EXTENDS GenerationLifecycle, TLC

Historical ==
  {[authority_type |-> "NODE_WORKER", evidence_kind |-> "HISTORICAL", evidence_ref |-> TRUE]}
AllGrounds == Historical \union
  [authority_type : {"DIRECTOR", "NODE_WORKER"}, evidence_kind : {"PROSPECTIVE"}, evidence_ref : {TRUE}]
=============================================================================
